---- MODULE Spec2Model ----
(***************************************************************************)
(* The locking protocol of the page table cursor                           *)
(* (ostd/src/mm/page_table/cursor/locking.rs).                             *)
(*                                                                         *)
(* Several threads call lock_range / unlock_range on one page table.  A    *)
(* thread that owns a cursor may replace entries inside its locked range   *)
(* (map a frame, unmap a frame, unlink a child page table and call         *)
(* dfs_mark_stray_and_unlock on it).  Every access to shared memory (a     *)
(* lock acquisition, a lock release, an atomic load of an entry, the work  *)
(* done under one lock) is one step.                                       *)
(***************************************************************************)
EXTENDS Integers, Sequences, FiniteSets, TLC

\* ------------------------------------------------------------ parameters

\* C::NR_LEVELS, the depth of the radix tree.
NR_LEVELS == 3

\* nr_subpage_per_huge::<C>(), the fan-out of a node.
NR_ENTRIES == 2

\* Option::None of a guard / the absence of a node.
NoNode == 0

\* pt.root.start_paddr()
RootNode == 1

Threads == {1, 2}

\* Bound: the number of lock_range calls made in one behaviour.
MaxLockCalls == 3

\* Bound: the number of entry replacements made through cursors.
MaxReplace == 2

\* page_size::<C>(level): the number of base pages one slot of a node of
\* this level covers.
page_size(l) == NR_ENTRIES ^ (l - 1)

\* pte_index::<C>(va, level)
pte_index(va, l) == (va \div page_size(l)) % NR_ENTRIES

\* The number of nodes of a full tree of the given depth.
RECURSIVE TreeSize(_)
TreeSize(l) == IF l = 0 THEN 0 ELSE 1 + NR_ENTRIES * TreeSize(l - 1)

\* Physical addresses of nodes.  The allocator hands out, for a child in a
\* given place of the tree, the first address of that place's pool that was
\* never used: NodeIds has one address per place of the tree and per
\* generation, and a place gets a new generation only after a replacement
\* unlinked the node that was there.
MaxNodes == TreeSize(NR_LEVELS) * (MaxReplace + 1)

NodeIds == 1 .. MaxNodes

Slots == 0 .. (NR_ENTRIES - 1)

\* The end of the address space (in base pages).
VaEnd == page_size(NR_LEVELS + 1)

\* The non-empty ranges va.start .. va.end handed to lock_range: inside one
\* level-1 node, all of one level-2 node, across two slots of the root with
\* the last level-1 node left out, and two ranges under the other root slot.
Ranges == {<<0, 1>>, <<0, 4>>, <<0, 6>>, <<4, 8>>, <<7, 8>>}

\* ------------------------------------------------------------ entries

\* Child::None
NoneEntry == [kind |-> "none", pa |-> NoNode]

\* Child::Frame / Child::Untracked: a leaf mapping
FrameEntry == [kind |-> "frame", pa |-> NoNode]

\* Child::PageTableRef(pt)
NodeEntry(n) == [kind |-> "node", pa |-> n]

VARIABLES
    level,          \* level[n]: PagingLevel of node n, 0 while not allocated
    stray,          \* stray[n]: the stray flag of node n
    lock,           \* lock[n]: the lock bit of node n
    entries,        \* entries[n][i]: the slot i of node n
    pc,             \* pc[t]: where thread t is
    va,             \* va[t]: the range of the current lock_range call
    cur_level,      \* try_traverse_and_lock_subtree_root: cur_level
    cur_pt_addr,    \* try_traverse_and_lock_subtree_root: cur_pt_addr
    cur_node_guard, \* try_traverse_and_lock_subtree_root: cur_node_guard
    pt_guard,       \* try_traverse_and_lock_subtree_root: pt_guard
    subtree_root,   \* the cursor's path[guard_level - 1]
    stack,          \* the call stack of dfs_acquire_lock / dfs_release_lock
    held,           \* held[t]: the nodes whose lock t acquired and has not released
    base,           \* base[t]: held[t] when the current lock_range was called
    took,           \* took[t]: the locks the last lock_range held when it returned
    cursor_use,     \* cursor_use[t]: what the current cursor replaced so far
    saw_leaf,       \* saw_leaf[t]: the current attempt stopped at a leaf mapping
    ncalls,         \* lock_range calls so far
    nreplace        \* cursor replacements so far

\* The state of kernel/src/process/signal/poll.rs.
VARIABLES
    events,         \* events[p]: PolleeInner::events of pollee p
    subject,        \* subject[p][h]: the mask the observer of handle h is
                    \* registered with in PolleeInner::subject, or NoMask
    alive,          \* alive[p]: the pollee is not dropped (Weak::upgrade)
    pollees,        \* pollees[h]: PollHandle::pollees
    counter,        \* counter[h]: EventCounter::counter of the observer of h
    pollop,         \* pollop[h]: the Pollee::poll call made last with handle h
    addop,          \* the Pollee::add_events call in progress
    wev,            \* the Pollable::wait_events call
    notified,       \* notified[h][p]: the events on_events was called with
    added,          \* added[p]: the events of the add_events calls that returned
    npolls,         \* Pollee::poll calls so far
    nadds           \* Pollee::add_events calls so far

pollVars == <<events, subject, alive, pollees, counter, pollop, addop, wev,
              notified, added, npolls, nadds>>

\* The state of bus/pci/bus.rs.
VARIABLES
    common_devices, \* PciBus::common_devices: the unclaimed devices
    devices,        \* PciBus::devices: the claimed devices
    drivers,        \* PciBus::drivers
    probed,         \* probed[drv][dev]: the probe calls of driver drv with dev
    ndevices        \* the devices handed to the bus so far

busVars == <<common_devices, devices, drivers, probed, ndevices>>

\* The state of a check_signal_perm call.
VARIABLES
    perm            \* the arguments, the receiver, and the result

permVars == <<perm>>

\* The state of page_table/cursor/locking.rs.
lockVars == <<level, stray, lock, entries, pc, va, cur_level, cur_pt_addr,
              cur_node_guard, pt_guard, subtree_root, stack, held, base, took,
              cursor_use, saw_leaf, ncalls, nreplace>>

\* The state the locking protocol leaves alone.
otherVars == <<pollVars, busVars, permVars>>

vars == <<lockVars, otherVars>>

treeVars == <<level, stray, entries>>
travVars == <<cur_level, cur_pt_addr, cur_node_guard, pt_guard>>
ghostVars == <<base, cursor_use>>

\* The locks a thread took in its current lock_range call.
Taken(t) == held[t] \ base[t]

\* ------------------------------------------------------------ helpers

Max(a, b) == IF a > b THEN a ELSE b
Min(a, b) == IF a < b THEN a ELSE b

\* va.align_down(page_size)
align_down(a, sz) == (a \div sz) * sz

\* usize::div_ceil
div_ceil(a, b) == (a + b - 1) \div b

\* A faulty variant of dfs_get_idx_range: the end index rounded down, so that a last
\* slot the range covers only in part is left out.
dfs_get_idx_range_floor(cur_node_level, cur_node_va, lo, hi) ==
    [start |-> (lo - cur_node_va) \div page_size(cur_node_level),
     end   |-> (hi - cur_node_va) \div page_size(cur_node_level)]

\* dfs_get_idx_range: the slots of a node at cur_node_va that intersect lo..hi
dfs_get_idx_range(cur_node_level, cur_node_va, lo, hi) ==
    [start |-> (lo - cur_node_va) \div page_size(cur_node_level),
     end   |-> div_ceil(hi - cur_node_va, page_size(cur_node_level))]

Top(stk) == stk[Len(stk)]
Pop(stk) == SubSeq(stk, 1, Len(stk) - 1)
SetTop(stk, f) == [stk EXCEPT ![Len(stk)] = f]

\* One activation of dfs_acquire_lock / dfs_release_lock: the node, its
\* virtual address, the range, and the slot the loop is at.
Frame(n, node_va, lo, hi, i) ==
    [node |-> n, node_va |-> node_va, lo |-> lo, hi |-> hi, i |-> i]

\* The activation for the child in slot i of the activation f.
ChildFrame(f, i, first) ==
    LET cur_lvl == level[f.node]
        child == entries[f.node][i].pa
        child_node_va == f.node_va + i * page_size(cur_lvl)
        child_node_va_end == child_node_va + page_size(cur_lvl)
        va_start == Max(f.lo, child_node_va)
        va_end == Min(f.hi, child_node_va_end)
        r == dfs_get_idx_range(level[child], child_node_va, va_start, va_end)
    IN  Frame(child, child_node_va, va_start, va_end,
              IF first THEN r.start ELSE r.end - 1)

\* ------------------------------------------------------------ locks

\* A faulty variant of Acquire: the guard is made without waiting for the lock bit.
AcquireNoSpin(t, n) ==
    /\ lock' = [lock EXCEPT ![n] = TRUE]
    /\ held' = [held EXCEPT ![t] = @ \cup {n}]

\* PageTableNodeRef::lock: spin until the lock bit is clear, then set it.
Acquire(t, n) ==
    /\ ~lock[n]
    /\ lock' = [lock EXCEPT ![n] = TRUE]
    /\ held' = [held EXCEPT ![t] = @ \cup {n}]

\* Drop of a PageTableGuard: clear the lock bit.
Release(t, n) ==
    /\ lock' = [lock EXCEPT ![n] = FALSE]
    /\ held' = [held EXCEPT ![t] = @ \ {n}]

\* ------------------------------------------------------------ poll.rs: data

\* The pollees and the poll handles (each handle has its own observer).
Pollees == {1, 2}
Handles == {1, 2}

\* The handle of the Poller that wait_events creates.
WaitHandle == 2

\* IoEvents: the event bits, and IoEvents::ALWAYS_POLL.
IoEvents == {"IN", "OUT", "HUP"}
ALWAYS_POLL == {"HUP"}

\* No mask: the observer is not registered (a registered mask holds ALWAYS_POLL).
NoMask == {}

\* The masks handed to poll and the events handed to add_events.
PollMasks == {{"IN"}, {"OUT"}}
AddEvents == {{"IN"}, {"OUT", "HUP"}}

\* The events handed to del_events.
DelEvents == {{"IN"}, {"OUT", "HUP"}, {"IN", "OUT"}}

\* The bit of each event in IoEvents::bits(), and the width the bit
\* operations are carried out at (the bits above those of IoEvents::all()
\* are zero in every operand but the complement).
EventBit(e) == CASE e = "IN" -> 1 [] e = "OUT" -> 4 [] e = "HUP" -> 16
BitsWidth == 8

\* Bound: the number of Pollee::poll calls made with a handle of the caller.
MaxPolls == 2

\* Bound: the number of Pollee::add_events calls.
MaxAdds == 2

\* Bound: the number of try_op calls in one wait_events call.
MaxTry == 3

\* What try_op returns, and the timeout argument of wait_events.
TryResults == {"Ok", "EAGAIN", "EINVAL"}
Timeouts == {"None", "Zero", "Some"}

NoPoll == [st |-> "idle", pollee |-> 1, mask |-> NoMask, ret |-> {}]
NoAdd == [st |-> "idle", pollee |-> 1, ev |-> {}, cleared |-> {}]
NoWait == [pc |-> "idle", pollee |-> 1, mask |-> NoMask, timeout |-> "None",
           log |-> <<>>, res |-> "none"]

\* Two pollees made by Pollee::new(IoEvents::empty()), handles just made by
\* PollHandle::new, no call in progress.
PollInit ==
    /\ events = [p \in Pollees |-> {}]
    /\ subject = [p \in Pollees |-> [h \in Handles |-> NoMask]]
    /\ alive = [p \in Pollees |-> TRUE]
    /\ pollees = [h \in Handles |-> <<>>]
    /\ counter = [h \in Handles |-> 0]
    /\ pollop = [h \in Handles |-> NoPoll]
    /\ addop = NoAdd
    /\ wev = NoWait
    /\ notified = [h \in Handles |-> [p \in Pollees |-> {}]]
    /\ added = [p \in Pollees |-> {}]
    /\ npolls = 0
    /\ nadds = 0

\* ------------------------------------------------------------ bus.rs: data

\* Bound: the devices handed to register_common_device.
MaxDevices == 4

\* Bound: the drivers handed to register_driver.
MaxDrivers == 3

PciDevices == 1 .. MaxDevices
PciDrivers == 1 .. MaxDrivers

\* What PciDriver::probe returns: the claimed device, or an error with the
\* device handed back.
ProbeResults == {"Ok", "DeviceNotMatch", "ConfigurationSpaceError"}

\* PciBus::new().
BusInit ==
    /\ common_devices = <<>>
    /\ devices = <<>>
    /\ drivers = <<>>
    /\ probed = [drv \in PciDrivers |-> [dev \in PciDevices |-> 0]]
    /\ ndevices = 0

\* ------------------------------------------------------------ posix_thread: data

\* Bound: the largest user id.
MaxUid == 2

\* Uid::is_root: the user id of root.
ROOT_UID == 0

Uids == 0 .. MaxUid
Sids == {1, 2}

\* signum: None, SIGCONT, or another signal.
SigNums == {"None", "SIGCONT", "SIGTERM"}

\* SignalSenderIds (ruid, euid, sid), and the credentials and the session
\* of the receiver.
SenderIds == [ruid : Uids, euid : Uids, sid : Sids]
Receivers == [ruid : Uids, suid : Uids, sid : Sids]

\* No check_signal_perm call has been made.
NoPerm == [signum |-> "None", sender |-> [ruid |-> 0, euid |-> 0, sid |-> 1],
           receiver |-> [ruid |-> 0, suid |-> 0, sid |-> 1], res |-> "none"]

\* ------------------------------------------------------------ initial state

\* A page table with an empty root node and no thread in the protocol.
LockInit ==
    /\ level = [n \in NodeIds |-> IF n = RootNode THEN NR_LEVELS ELSE 0]
    /\ stray = [n \in NodeIds |-> FALSE]
    /\ lock = [n \in NodeIds |-> FALSE]
    /\ entries = [n \in NodeIds |-> [i \in Slots |-> NoneEntry]]
    /\ pc = [t \in Threads |-> "idle"]
    /\ va = [t \in Threads |-> <<0, 1>>]
    /\ cur_level = [t \in Threads |-> NR_LEVELS]
    /\ cur_pt_addr = [t \in Threads |-> RootNode]
    /\ cur_node_guard = [t \in Threads |-> NoNode]
    /\ pt_guard = [t \in Threads |-> NoNode]
    /\ subtree_root = [t \in Threads |-> NoNode]
    /\ stack = [t \in Threads |-> <<>>]
    /\ held = [t \in Threads |-> {}]
    /\ base = [t \in Threads |-> {}]
    /\ took = [t \in Threads |-> {}]
    /\ cursor_use = [t \in Threads |-> "fresh"]
    /\ saw_leaf = [t \in Threads |-> FALSE]
    /\ ncalls = 0
    /\ nreplace = 0

Init ==
    /\ LockInit
    /\ PollInit
    /\ BusInit
    /\ perm = NoPerm

\* ------------------------------------------------------------ lock_range

\* A faulty variant of StartAttempt: the next attempt goes on from the node
\* the last one stopped at.
StartAttemptHere(t) ==
    /\ cur_node_guard' = [cur_node_guard EXCEPT ![t] = NoNode]
    /\ pt_guard' = [pt_guard EXCEPT ![t] = NoNode]
    /\ saw_leaf' = [saw_leaf EXCEPT ![t] = FALSE]
    /\ UNCHANGED <<cur_level, cur_pt_addr>>

\* The start of one attempt of try_traverse_and_lock_subtree_root.
StartAttempt(t) ==
    /\ cur_level' = [cur_level EXCEPT ![t] = NR_LEVELS]
    /\ cur_pt_addr' = [cur_pt_addr EXCEPT ![t] = RootNode]
    /\ cur_node_guard' = [cur_node_guard EXCEPT ![t] = NoNode]
    /\ pt_guard' = [pt_guard EXCEPT ![t] = NoNode]
    /\ saw_leaf' = [saw_leaf EXCEPT ![t] = FALSE]

\* A thread calls lock_range(pt, guard, va, ..) and enters the retry loop.
LockRange(t, r) ==
    /\ pc[t] = "idle"
    /\ ncalls < MaxLockCalls
    /\ ncalls' = ncalls + 1
    /\ va' = [va EXCEPT ![t] = r]
    /\ base' = [base EXCEPT ![t] = held[t]]
    /\ took' = [took EXCEPT ![t] = {}]
    /\ cursor_use' = [cursor_use EXCEPT ![t] = "fresh"]
    /\ StartAttempt(t)
    /\ pc' = [pc EXCEPT ![t] = "traverse"]
    /\ UNCHANGED <<treeVars, lock, held, subtree_root, stack, nreplace>>
    /\ UNCHANGED otherVars

\* A faulty variant of level_too_high: the descent stops one level early.
level_too_high_early(l, start_idx, end_idx) == l > 2 /\ start_idx = end_idx

\* level_too_high: the range lies in one slot of a node of level l > 1.
level_too_high(l, start_idx, end_idx) == l > 1 /\ start_idx = end_idx

\* A faulty variant of IsStray: the stray flag of a locked node is not looked at.
IsStrayIgnored(n) == FALSE

\* *pt_guard.stray_mut(), read under the lock of the node.
IsStray(n) == stray[n]

\* One iteration of the descent up to the lock-free load of the entry.
TraverseLoad(t) ==
    /\ pc[t] = "traverse"
    /\ LET l == cur_level[t]
           start_idx == pte_index(va[t][1], l)
           end_idx == pte_index(va[t][2] - 1, l)
           cur_pte == entries[cur_pt_addr[t]][start_idx]
       IN  IF ~level_too_high(l, start_idx, end_idx)
           THEN \* break
                /\ pc' = [pc EXCEPT ![t] = "lock_root"]
                /\ UNCHANGED <<lock, held, travVars, saw_leaf>>
           ELSE IF cur_pte.kind = "frame"
           THEN \* present and last: break
                /\ pc' = [pc EXCEPT ![t] = "lock_root"]
                /\ saw_leaf' = [saw_leaf EXCEPT ![t] = TRUE]
                /\ UNCHANGED <<lock, held, travVars>>
           ELSE IF cur_pte.kind = "node"
           THEN \* continue with the child; a guard still held is dropped
                /\ cur_pt_addr' = [cur_pt_addr EXCEPT ![t] = cur_pte.pa]
                /\ cur_node_guard' = [cur_node_guard EXCEPT ![t] = NoNode]
                /\ cur_level' = [cur_level EXCEPT ![t] = l - 1]
                /\ IF cur_node_guard[t] # NoNode
                   THEN Release(t, cur_node_guard[t])
                   ELSE UNCHANGED <<lock, held>>
                /\ UNCHANGED <<pc, pt_guard, saw_leaf>>
           ELSE \* the child is absent
                /\ pc' = [pc EXCEPT ![t] = "lock_parent"]
                /\ UNCHANGED <<lock, held, travVars, saw_leaf>>
    /\ UNCHANGED <<treeVars, va, subtree_root, stack, ghostVars, took, ncalls, nreplace>>
    /\ UNCHANGED otherVars

\* A faulty variant of AllocPaddr: the frame of a node that was unlinked is
\* handed out again.
AllocPaddrReuse(pt, idx) ==
    1 + ((pt - 1) % TreeSize(NR_LEVELS)) * NR_ENTRIES + idx + 1

\* The frame allocator: the address of the node allocated for the slot idx
\* of the node pt (NoNode when the pool of that place is used up).
AllocPaddr(pt, idx) ==
    LET place == ((pt - 1) % TreeSize(NR_LEVELS)) * NR_ENTRIES + idx + 1
        free == {g \in 0 .. MaxReplace : level[1 + place + g * TreeSize(NR_LEVELS)] = 0}
    IN  IF free = {} THEN NoNode
        ELSE 1 + place + (CHOOSE g \in free : \A h \in free : g <= h) * TreeSize(NR_LEVELS)

\* A faulty variant of AllocNeeded: a child is allocated unless the slot
\* holds a child node.
AllocUnlessNode(cur_entry) == cur_entry.kind # "node"

\* A faulty variant of AllocNeeded: the entry is not looked at again under the lock.
AllocAlways(cur_entry) == TRUE

\* Entry::alloc_if_none: whether the slot read under the lock is replaced
\* by a new child node.
AllocNeeded(cur_entry) == cur_entry.kind = "none"

\* The child is absent: cur_node_guard.take().unwrap_or_else(|| lock), and
\* the work done under the parent's lock: the stray check, the second look
\* at the entry and the allocation of the child.
LockParent(t) ==
    /\ pc[t] = "lock_parent"
    /\ LET pt == IF cur_node_guard[t] # NoNode THEN cur_node_guard[t] ELSE cur_pt_addr[t]
           start_idx == pte_index(va[t][1], cur_level[t])
           cur_entry == entries[pt][start_idx]
       IN  /\ cur_node_guard[t] = NoNode => ~lock[pt]
           /\ IF IsStray(pt)
              THEN \* return None (the guard is dropped); lock_range tries again
                   /\ lock' = [lock EXCEPT ![pt] = FALSE]
                   /\ held' = [held EXCEPT ![t] = @ \ {pt}]
                   /\ StartAttempt(t)
                   /\ pc' = [pc EXCEPT ![t] = "traverse"]
                   /\ UNCHANGED treeVars
              ELSE IF AllocNeeded(cur_entry)
              THEN LET new == AllocPaddr(pt, start_idx)
                   IN  /\ new \in NodeIds
                       /\ level' = [level EXCEPT ![new] = level[pt] - 1]
                       /\ entries' = [entries EXCEPT ![pt][start_idx] = NodeEntry(new)]
                       /\ lock' = [lock EXCEPT ![pt] = TRUE, ![new] = TRUE]
                       /\ held' = [held EXCEPT ![t] = @ \cup {pt, new}]
                       /\ cur_pt_addr' = [cur_pt_addr EXCEPT ![t] = new]
                       /\ cur_node_guard' = [cur_node_guard EXCEPT ![t] = new]
                       /\ pt_guard' = [pt_guard EXCEPT ![t] = pt]
                       /\ pc' = [pc EXCEPT ![t] = "drop_parent"]
                       /\ UNCHANGED <<stray, cur_level, saw_leaf>>
              ELSE /\ lock' = [lock EXCEPT ![pt] = TRUE]
                   /\ held' = [held EXCEPT ![t] = @ \cup {pt}]
                   /\ pt_guard' = [pt_guard EXCEPT ![t] = pt]
                   /\ cur_node_guard' = [cur_node_guard EXCEPT ![t] = NoNode]
                   /\ IF cur_entry.kind = "node"
                      THEN /\ cur_pt_addr' = [cur_pt_addr EXCEPT ![t] = cur_entry.pa]
                           /\ pc' = [pc EXCEPT ![t] = "drop_parent"]
                           /\ UNCHANGED saw_leaf
                      ELSE \* a leaf mapping: break
                           /\ pc' = [pc EXCEPT ![t] = "drop_parent_break"]
                           /\ saw_leaf' = [saw_leaf EXCEPT ![t] = TRUE]
                           /\ UNCHANGED cur_pt_addr
                   /\ UNCHANGED <<treeVars, cur_level>>
    /\ UNCHANGED <<va, subtree_root, stack, ghostVars, took, ncalls, nreplace>>
    /\ UNCHANGED otherVars

\* A faulty variant of DropParent: pt_guard is forgotten, its lock is never released.
DropParentForget(t) ==
    /\ pc[t] \in {"drop_parent", "drop_parent_break"}
    /\ pt_guard' = [pt_guard EXCEPT ![t] = NoNode]
    /\ IF pc[t] = "drop_parent"
       THEN /\ cur_level' = [cur_level EXCEPT ![t] = @ - 1]
            /\ pc' = [pc EXCEPT ![t] = "traverse"]
       ELSE /\ pc' = [pc EXCEPT ![t] = "lock_root"]
            /\ UNCHANGED cur_level
    /\ UNCHANGED <<treeVars, lock, held, va, cur_pt_addr, cur_node_guard, subtree_root,
                   stack, ghostVars, took, saw_leaf, ncalls, nreplace>>
    /\ UNCHANGED otherVars

\* A faulty variant of DropParent: the loop is left after the allocation.
DropParentStop(t) ==
    /\ pc[t] \in {"drop_parent", "drop_parent_break"}
    /\ lock' = [lock EXCEPT ![pt_guard[t]] = FALSE]
    /\ held' = [held EXCEPT ![t] = @ \ {pt_guard[t]}]
    /\ pt_guard' = [pt_guard EXCEPT ![t] = NoNode]
    /\ pc' = [pc EXCEPT ![t] = "lock_root"]
    /\ UNCHANGED <<treeVars, va, cur_level, cur_pt_addr, cur_node_guard, subtree_root,
                   stack, ghostVars, took, saw_leaf, ncalls, nreplace>>
    /\ UNCHANGED otherVars

\* The end of the loop body: pt_guard goes out of scope.
DropParent(t) ==
    /\ pc[t] \in {"drop_parent", "drop_parent_break"}
    /\ Release(t, pt_guard[t])
    /\ pt_guard' = [pt_guard EXCEPT ![t] = NoNode]
    /\ IF pc[t] = "drop_parent"
       THEN /\ cur_level' = [cur_level EXCEPT ![t] = @ - 1]
            /\ pc' = [pc EXCEPT ![t] = "traverse"]
       ELSE /\ pc' = [pc EXCEPT ![t] = "lock_root"]
            /\ UNCHANGED cur_level
    /\ UNCHANGED <<treeVars, va, cur_pt_addr, cur_node_guard, subtree_root, stack,
                   ghostVars, took, saw_leaf, ncalls, nreplace>>
    /\ UNCHANGED otherVars

\* A faulty variant of AcquireAdvance: the loop of dfs_acquire_lock visits
\* the slots of the range from the last to the first.
RECURSIVE AcquireAdvanceRev(_)
AcquireAdvanceRev(stk0) ==
    CHOOSE next \in
        {IF stk = <<>> THEN stk
         ELSE LET f == Top(stk)
                  r == dfs_get_idx_range(level[f.node], f.node_va, f.lo, f.hi)
                  limit == IF f.i = r.start THEN r.end ELSE f.i - 1
                  cands == {j \in r.start .. (limit - 1) : entries[f.node][j].kind = "node"}
              IN  IF level[f.node] <= 1 \/ cands = {}
                  THEN AcquireAdvanceRev(Pop(stk))
                  ELSE SetTop(stk, [f EXCEPT !.i = CHOOSE j \in cands :
                                                     \A k \in cands : k <= j])
         : stk \in {stk0}} : TRUE

\* dfs_acquire_lock between two lock acquisitions: return from finished
\* activations and skip the slots that hold no child node, until the slot
\* at the top activation holds a child node (to be locked) or all returned.
\* (stk is the value of the argument stk0.)
RECURSIVE AcquireAdvance(_)
AcquireAdvance(stk0) ==
    CHOOSE next \in
        {IF stk = <<>> THEN stk
         ELSE LET f == Top(stk)
                  r == dfs_get_idx_range(level[f.node], f.node_va, f.lo, f.hi)
              IN  IF level[f.node] <= 1 \/ f.i >= r.end
                  THEN AcquireAdvance(Pop(stk))
                  ELSE IF entries[f.node][f.i].kind = "node"
                  THEN stk
                  ELSE AcquireAdvance(SetTop(stk, [f EXCEPT !.i = @ + 1]))
         : stk \in {stk0}} : TRUE

\* A faulty variant of AcquireStart: dfs_acquire_lock is not called.
AcquireStartNoDfs(n, lo, hi) == <<>>

\* The first activation of dfs_acquire_lock, on the subtree root.
AcquireStart(n, lo, hi) ==
    LET guard_level == level[n]
        cur_node_va == align_down(lo, page_size(guard_level + 1))
        r == dfs_get_idx_range(guard_level, cur_node_va, lo, hi)
    IN  AcquireAdvance(<<Frame(n, cur_node_va, lo, hi, r.start)>>)

\* After the loop: cur_node_guard.unwrap_or_else(|| lock), the stray check
\* of the locked node, the return to lock_range and the start of
\* dfs_acquire_lock on the subtree root.
LockSubtreeRoot(t) ==
    /\ pc[t] = "lock_root"
    /\ LET pt == IF cur_node_guard[t] # NoNode THEN cur_node_guard[t] ELSE cur_pt_addr[t]
       IN  /\ cur_node_guard[t] = NoNode => ~lock[pt]
           /\ IF IsStray(pt)
              THEN \* return None (the guard is dropped); lock_range tries again
                   /\ lock' = [lock EXCEPT ![pt] = FALSE]
                   /\ held' = [held EXCEPT ![t] = @ \ {pt}]
                   /\ StartAttempt(t)
                   /\ pc' = [pc EXCEPT ![t] = "traverse"]
                   /\ UNCHANGED <<subtree_root, stack, took>>
              ELSE LET stk == AcquireStart(pt, va[t][1], va[t][2])
                   IN  /\ lock' = [lock EXCEPT ![pt] = TRUE]
                       /\ held' = [held EXCEPT ![t] = @ \cup {pt}]
                       /\ subtree_root' = [subtree_root EXCEPT ![t] = pt]
                       /\ stack' = [stack EXCEPT ![t] = stk]
                       /\ cur_level' = [cur_level EXCEPT ![t] = NR_LEVELS]
                       /\ cur_pt_addr' = [cur_pt_addr EXCEPT ![t] = RootNode]
                       /\ cur_node_guard' = [cur_node_guard EXCEPT ![t] = NoNode]
                       /\ pt_guard' = [pt_guard EXCEPT ![t] = NoNode]
                       /\ UNCHANGED saw_leaf
                       /\ pc' = [pc EXCEPT ![t] =
                                   IF stk = <<>> THEN "cursor" ELSE "dfs_acquire"]
                       /\ took' = [took EXCEPT ![t] =
                                     IF stk = <<>> THEN (held[t] \cup {pt}) \ base[t]
                                     ELSE @]
    /\ UNCHANGED <<treeVars, va, ghostVars, ncalls, nreplace>>
    /\ UNCHANGED otherVars

\* dfs_acquire_lock: pt.lock(guard) on the child in the current slot, the
\* recursive call on it, and the walk to the next child node.
DfsAcquireLock(t) ==
    /\ pc[t] = "dfs_acquire"
    /\ LET stk == stack[t]
           f == Top(stk)
           child == entries[f.node][f.i].pa
           pushed == Append(SetTop(stk, [f EXCEPT !.i = @ + 1]),
                            ChildFrame(f, f.i, TRUE))
           next == AcquireAdvance(pushed)
       IN  /\ Acquire(t, child)
           /\ stack' = [stack EXCEPT ![t] = next]
           /\ pc' = [pc EXCEPT ![t] = IF next = <<>> THEN "cursor" ELSE "dfs_acquire"]
           /\ took' = [took EXCEPT ![t] =
                         IF next = <<>> THEN (held[t] \cup {child}) \ base[t] ELSE @]
    /\ UNCHANGED <<treeVars, va, travVars, subtree_root, ghostVars, saw_leaf, ncalls, nreplace>>
    /\ UNCHANGED otherVars

\* ------------------------------------------------------------ unlock_range

\* A faulty variant of ReleaseDescend: no call into the child nodes.
ReleaseDescendShallow(stk0) == stk0

\* dfs_release_lock down to the next guard that is dropped: walk the slots
\* in reverse, re-making the guard of every child node met
\* (make_guard_unchecked) and calling into it, until an activation is at its
\* end.  (stk is the value of the argument stk0.)
RECURSIVE ReleaseDescend(_)
ReleaseDescend(stk0) ==
    CHOOSE down \in
        {LET f == Top(stk)
             r == dfs_get_idx_range(level[f.node], f.node_va, f.lo, f.hi)
         IN  IF level[f.node] <= 1 \/ f.i < r.start
             THEN stk
             ELSE IF entries[f.node][f.i].kind = "node"
             THEN ReleaseDescend(Append(SetTop(stk, [f EXCEPT !.i = @ - 1]),
                                        ChildFrame(f, f.i, FALSE)))
             ELSE ReleaseDescend(SetTop(stk, [f EXCEPT !.i = @ - 1]))
         : stk \in {stk0}} : TRUE

\* A faulty variant of ReleaseStart: the range handed to dfs_release_lock
\* is the whole coverage of the guard node.
ReleaseStartWide(n, lo, hi) ==
    LET guard_level == level[n]
        cur_node_va == (lo \div page_size(guard_level + 1)) * page_size(guard_level + 1)
    IN  <<Frame(n, cur_node_va, cur_node_va, cur_node_va + page_size(guard_level + 1),
                NR_ENTRIES - 1)>>

\* A faulty variant of ReleaseStart: the loop of the first activation
\* starts at the first slot of the range.
ReleaseStartLow(n, lo, hi) ==
    LET guard_level == level[n]
        cur_node_va == (lo \div page_size(guard_level + 1)) * page_size(guard_level + 1)
        r == dfs_get_idx_range(guard_level, cur_node_va, lo, hi)
    IN  <<Frame(n, cur_node_va, lo, hi, r.start)>>

\* The first activation of dfs_release_lock, on the cursor's guard node.
ReleaseStart(n, lo, hi) ==
    LET guard_level == level[n]
        cur_node_va == (lo \div page_size(guard_level + 1)) * page_size(guard_level + 1)
        r == dfs_get_idx_range(guard_level, cur_node_va, lo, hi)
    IN  <<Frame(n, cur_node_va, lo, hi, r.end - 1)>>

\* The guard of the activation that has reached its end is dropped.
ReleaseTop(t, stk) ==
    LET down == ReleaseDescend(stk)
        rest == Pop(down)
    IN  /\ Release(t, Top(down).node)
        /\ stack' = [stack EXCEPT ![t] = rest]
        /\ pc' = [pc EXCEPT ![t] = IF rest = <<>> THEN "idle" ELSE "dfs_release"]
        /\ subtree_root' = [subtree_root EXCEPT ![t] = IF rest = <<>> THEN NoNode ELSE @]

\* unlock_range(cursor) up to the first guard dropped by dfs_release_lock.
UnlockRange(t) ==
    /\ pc[t] = "cursor"
    /\ ReleaseTop(t, ReleaseStart(subtree_root[t], va[t][1], va[t][2]))
    /\ UNCHANGED <<treeVars, va, travVars, ghostVars, took, saw_leaf, ncalls, nreplace>>
    /\ UNCHANGED otherVars

\* dfs_release_lock up to the next guard dropped.
DfsReleaseLock(t) ==
    /\ pc[t] = "dfs_release"
    /\ ReleaseTop(t, stack[t])
    /\ UNCHANGED <<treeVars, va, travVars, ghostVars, took, saw_leaf, ncalls, nreplace>>
    /\ UNCHANGED otherVars

\* ------------------------------------------------------------ cursor use

\* The slots a cursor may replace: the slots of the nodes of its locked
\* subtree whose whole coverage lies inside the locked range.
RECURSIVE CursorSlotsOf(_, _, _, _)
CursorSlotsOf(n, node_va, lo, hi) ==
    LET r == dfs_get_idx_range(level[n], node_va, lo, hi)
        sz == page_size(level[n])
        inside == {i \in r.start .. (r.end - 1) :
                     lo <= node_va + i * sz /\ node_va + (i + 1) * sz <= hi}
        below == IF level[n] <= 1 THEN {}
                 ELSE UNION {CursorSlotsOf(entries[n][i].pa, node_va + i * sz,
                                           Max(lo, node_va + i * sz),
                                           Min(hi, node_va + (i + 1) * sz)) :
                             i \in {j \in r.start .. (r.end - 1) :
                                      entries[n][j].kind = "node"}}
    IN  {<<n, i>> : i \in inside} \cup below

CursorSlots(t) ==
    IF pc[t] # "cursor" \/ nreplace >= MaxReplace THEN {}
    ELSE CursorSlotsOf(subtree_root[t],
                  align_down(va[t][1], page_size(level[subtree_root[t]] + 1)),
                  va[t][1], va[t][2])

\* The nodes of the subtree rooted at n.
RECURSIVE Subtree(_)
Subtree(n) ==
    {n} \cup UNION {Subtree(entries[n][i].pa) :
                      i \in {j \in Slots : entries[n][j].kind = "node"}}

\* dfs_mark_stray_and_unlock(rcu_guard, sub_tree): the nodes it visits; each
\* of them is marked stray and its guard is dropped.
RECURSIVE dfs_mark_stray_and_unlock(_)
dfs_mark_stray_and_unlock(sub_tree) ==
    IF level[sub_tree] > 1
    THEN {sub_tree}
    ELSE {sub_tree} \cup
         UNION {dfs_mark_stray_and_unlock(entries[sub_tree][i].pa) :
                  i \in {j \in Slots : entries[sub_tree][j].kind = "node"}}

\* The cursor maps a leaf into an empty slot of its range.
CursorMap(t, n, i) ==
    /\ <<n, i>> \in CursorSlots(t)
    /\ entries[n][i].kind = "none"
    /\ entries' = [entries EXCEPT ![n][i] = FrameEntry]
    /\ nreplace' = nreplace + 1
    /\ cursor_use' = [cursor_use EXCEPT ![t] = IF @ = "unlinked" THEN @ ELSE "replaced"]
    /\ UNCHANGED <<level, stray, lock, pc, va, travVars, subtree_root,
                   stack, held, base, took, saw_leaf, ncalls>>
    /\ UNCHANGED otherVars

\* The cursor unmaps a leaf of its range.
CursorUnmap(t, n, i) ==
    /\ <<n, i>> \in CursorSlots(t)
    /\ entries[n][i].kind = "frame"
    /\ entries' = [entries EXCEPT ![n][i] = NoneEntry]
    /\ nreplace' = nreplace + 1
    /\ cursor_use' = [cursor_use EXCEPT ![t] = IF @ = "unlinked" THEN @ ELSE "replaced"]
    /\ UNCHANGED <<level, stray, lock, pc, va, travVars, subtree_root,
                   stack, held, base, took, saw_leaf, ncalls>>
    /\ UNCHANGED otherVars

\* The cursor unlinks a child page table of its range from its parent and
\* calls dfs_mark_stray_and_unlock on it.
CursorUnlink(t, n, i) ==
    /\ <<n, i>> \in CursorSlots(t)
    /\ entries[n][i].kind = "node"
    /\ LET visited == dfs_mark_stray_and_unlock(entries[n][i].pa)
       IN  /\ entries' = [entries EXCEPT ![n][i] = NoneEntry]
           /\ stray' = [m \in NodeIds |-> stray[m] \/ m \in visited]
           /\ lock' = [m \in NodeIds |-> lock[m] /\ m \notin visited]
           /\ held' = [held EXCEPT ![t] = @ \ visited]
    /\ cursor_use' = [cursor_use EXCEPT ![t] = "unlinked"]
    /\ nreplace' = nreplace + 1
    /\ UNCHANGED <<level, pc, va, travVars, subtree_root, stack, base, took, saw_leaf,
                   ncalls>>
    /\ UNCHANGED otherVars

\* ------------------------------------------------------------ specification

Step(t) ==
    \/ TraverseLoad(t)
    \/ LockParent(t)
    \/ DropParent(t)
    \/ LockSubtreeRoot(t)
    \/ DfsAcquireLock(t)
    \/ UnlockRange(t)
    \/ DfsReleaseLock(t)

Next ==
    \/ \E t \in Threads, r \in Ranges : LockRange(t, r)
    \/ \E t \in Threads : Step(t)
    \/ \E t \in Threads : \E s \in CursorSlots(t) : CursorMap(t, s[1], s[2])
    \/ \E t \in Threads : \E s \in CursorSlots(t) : CursorUnmap(t, s[1], s[2])
    \/ \E t \in Threads : \E s \in CursorSlots(t) : CursorUnlink(t, s[1], s[2])

Spec == Init /\ [][Next]_vars

\* Every thread that can take a step eventually takes one: the threads run
\* on their own processors and never yield inside the protocol.
FairSpec == Spec /\ \A t \in Threads : WF_vars(Step(t))

\* The threads only call lock_range and unlock_range.
NextLockUnlock ==
    \/ \E t \in Threads, r \in Ranges : LockRange(t, r)
    \/ \E t \in Threads : Step(t)

FairLockUnlock ==
    Init /\ [][NextLockUnlock]_vars /\ \A t \in Threads : WF_vars(Step(t))

\* alloc_if_none(..).unwrap() when no memory is left for the new node:
\* lock_range returns a Cursor and has no other way out than a panic.  With
\* unwinding the guard of the parent is dropped and the thread is gone; with
\* panic = abort the machine stops with the parent locked.
AllocFail(t, unwind) ==
    /\ pc[t] = "lock_parent"
    /\ LET pt == IF cur_node_guard[t] # NoNode THEN cur_node_guard[t] ELSE cur_pt_addr[t]
           start_idx == pte_index(va[t][1], cur_level[t])
       IN  /\ cur_node_guard[t] = NoNode => ~lock[pt]
           /\ ~IsStray(pt)
           /\ AllocNeeded(entries[pt][start_idx])
           /\ IF unwind
              THEN /\ lock' = [lock EXCEPT ![pt] = FALSE]
                   /\ held' = [held EXCEPT ![t] = @ \ {pt}]
                   /\ pc' = [pc EXCEPT ![t] = "panic_unwind"]
              ELSE /\ lock' = [lock EXCEPT ![pt] = TRUE]
                   /\ held' = [held EXCEPT ![t] = @ \cup {pt}]
                   /\ pc' = [u \in Threads |-> IF u = t THEN "panic_abort" ELSE "halted"]
    /\ cur_node_guard' = [cur_node_guard EXCEPT ![t] = NoNode]
    /\ UNCHANGED <<treeVars, va, cur_level, cur_pt_addr, pt_guard, subtree_root, stack,
                   ghostVars, took, saw_leaf, ncalls, nreplace>>
    /\ UNCHANGED otherVars

\* The operations, with allocations that can fail.
NextOom ==
    \/ Next
    \/ \E t \in Threads, unwind \in BOOLEAN : AllocFail(t, unwind)

OomSpec == Init /\ [][NextOom]_vars

\* One thread alone locks a range, unlocks it and locks it again, after
\* MaxLockCalls calls of any thread: the thread that does so.
SoloThread == CHOOSE t \in Threads : TRUE

\* lock_range called while every thread is idle: a first time with any
\* range, a second time with the range of the first call.
SoloLockRange(r) ==
    /\ \A t \in Threads : pc[t] = "idle"
    /\ \/ ncalls = MaxLockCalls
       \/ ncalls = MaxLockCalls + 1 /\ r = va[SoloThread]
    /\ ncalls' = ncalls + 1
    /\ va' = [va EXCEPT ![SoloThread] = r]
    /\ base' = [base EXCEPT ![SoloThread] = held[SoloThread]]
    /\ took' = [took EXCEPT ![SoloThread] = IF ncalls = MaxLockCalls THEN {} ELSE @]
    /\ cursor_use' = [cursor_use EXCEPT ![SoloThread] = "fresh"]
    /\ StartAttempt(SoloThread)
    /\ pc' = [pc EXCEPT ![SoloThread] = "traverse"]
    /\ UNCHANGED <<treeVars, lock, held, subtree_root, stack, nreplace>>
    /\ UNCHANGED otherVars

NextRelock ==
    \/ ncalls <= MaxLockCalls /\ Next
    \/ \E r \in Ranges : SoloLockRange(r)
    \/ ncalls > MaxLockCalls /\ Step(SoloThread)

RelockSpec == Init /\ [][NextRelock]_vars

\* ------------------------------------------------------------ poll.rs

\* A faulty variant of register_poller: the pollee is pushed, the observer
\* is not registered.
register_poller_forgets(h, p, mask) ==
    /\ subject' = subject
    /\ pollees' = [pollees EXCEPT ![h] = Append(@, p)]

\* Pollee::register_poller: Subject::register_observer (the mask of an
\* observer that is registered already is updated) and the push on
\* poller.pollees.
register_poller(h, p, mask) ==
    /\ subject' = [subject EXCEPT ![p][h] = mask]
    /\ pollees' = [pollees EXCEPT ![h] = Append(@, p)]

\* Pollee::poll(mask, Some(poller)) up to the registration of the poller.
PollRegister(h, p, m) ==
    /\ h # WaitHandle
    /\ pollop[h].st # "registered"
    /\ alive[p]
    /\ npolls < MaxPolls
    /\ npolls' = npolls + 1
    /\ register_poller(h, p, m \cup ALWAYS_POLL)
    /\ pollop' = [pollop EXCEPT ![h] = [st |-> "registered", pollee |-> p,
                                         mask |-> m \cup ALWAYS_POLL, ret |-> {}]]
    /\ UNCHANGED <<events, alive, counter, addop, wev, notified, added, nadds>>
    /\ UNCHANGED <<lockVars, busVars, permVars>>

\* Pollee::poll: self.events() & mask, after the registration.
PollEvents(h) ==
    /\ h # WaitHandle
    /\ pollop[h].st = "registered"
    /\ pollop' = [pollop EXCEPT ![h].st = "done",
                                 ![h].ret = events[pollop[h].pollee] \cap pollop[h].mask]
    /\ UNCHANGED <<events, subject, alive, pollees, counter, addop, wev, notified,
                   added, npolls, nadds>>
    /\ UNCHANGED <<lockVars, busVars, permVars>>

\* A faulty variant of ResetTargets: only the pollee registered with last.
ResetTargetsLast(h) ==
    {p \in Pollees : alive[p] /\ pollees[h] # <<>> /\ pollees[h][Len(pollees[h])] = p}

\* PollHandle::reset: the pollees of the handle that still exist.
ResetTargets(h) ==
    {p \in Pollees : alive[p] /\ \E k \in 1 .. Len(pollees[h]) : pollees[h][k] = p}

\* PollHandle::reset: the observer is unregistered from the subjects.
reset(h) ==
    [p \in Pollees |-> IF p \in ResetTargets(h)
                       THEN [subject[p] EXCEPT ![h] = NoMask]
                       ELSE subject[p]]

\* PollHandle::reset called by the owner of the handle (&mut self: no poll
\* with this handle is in progress).
Reset(h) ==
    /\ h # WaitHandle
    /\ pollop[h].st = "done"
    /\ subject' = reset(h)
    /\ pollop' = [pollop EXCEPT ![h] = NoPoll]
    /\ UNCHANGED <<events, alive, pollees, counter, addop, wev, notified, added,
                   npolls, nadds>>
    /\ UNCHANGED <<lockVars, busVars, permVars>>

\* Pollee::add_events: events.fetch_or(events.bits(), Release).
AddFetchOr(p, ev) ==
    /\ addop.st = "idle"
    /\ alive[p]
    /\ nadds < MaxAdds
    /\ nadds' = nadds + 1
    /\ events' = [events EXCEPT ![p] = @ \cup ev]
    /\ addop' = [st |-> "fetch_or", pollee |-> p, ev |-> ev, cleared |-> {}]
    /\ UNCHANGED <<subject, alive, pollees, counter, pollop, wev, notified, added,
                   npolls>>
    /\ UNCHANGED <<lockVars, busVars, permVars>>

\* A faulty variant of Interested: an observer is notified only of events
\* that its mask covers entirely.
InterestedInAll(p, ev) == {h \in Handles : ev \subseteq subject[p][h]}

\* The observers Subject::notify_observers(&events) calls on_events of:
\* those registered with a mask that the events meet.
Interested(p, ev) == {h \in Handles : subject[p][h] \cap ev # {}}

\* Pollee::add_events: subject.notify_observers(&events); on_events of an
\* EventCounter is write(): counter.fetch_add(1) and the wake-up.
AddNotify ==
    /\ addop.st = "fetch_or"
    /\ LET p == addop.pollee
           hs == Interested(p, addop.ev)
       IN  /\ counter' = [h \in Handles |-> IF h \in hs THEN counter[h] + 1 ELSE counter[h]]
           /\ notified' = [h \in Handles |->
                             IF h \in hs THEN [notified[h] EXCEPT ![p] = @ \cup addop.ev]
                             ELSE notified[h]]
           /\ added' = [added EXCEPT ![p] = @ \cup addop.ev]
    /\ addop' = NoAdd
    /\ UNCHANGED <<events, subject, alive, pollees, pollop, wev, npolls, nadds>>
    /\ UNCHANGED <<lockVars, busVars, permVars>>

\* IoEvents::bits() and IoEvents::from_bits(..).unwrap().
RECURSIVE bits(_)
bits(evs) ==
    IF evs = {} THEN 0
    ELSE LET e == CHOOSE x \in evs : TRUE IN EventBit(e) + bits(evs \ {e})
from_bits(b) == {e \in IoEvents : (b \div EventBit(e)) % 2 = 1}

\* A faulty variant of BitNot: the complement is left out.
BitNotNone(a) == a

\* The operators ! and & on the event bits.
BitNot(a) == 2 ^ BitsWidth - 1 - a
RECURSIVE BitAnd(_, _, _)
BitAnd(a, b, n) ==
    IF n = 0 THEN 0
    ELSE (a % 2) * (b % 2) + 2 * BitAnd(a \div 2, b \div 2, n - 1)

\* events.fetch_and(!mask.bits(), Release): the event state it leaves.
fetch_and_not(evs, mask) == from_bits(BitAnd(bits(evs), BitNot(bits(mask)), BitsWidth))

\* The bits cleared while an add_events call on p is between its fetch_or
\* and its notification.
ClearedDuringAdd(p, mask) ==
    IF addop.st = "fetch_or" /\ addop.pollee = p
    THEN [addop EXCEPT !.cleared = @ \cup mask]
    ELSE addop

\* Pollee::del_events(events).
del_events(p, ev) ==
    /\ alive[p]
    /\ events' = [events EXCEPT ![p] = fetch_and_not(@, ev)]
    /\ addop' = ClearedDuringAdd(p, ev)
    /\ UNCHANGED <<subject, alive, pollees, counter, pollop, wev, notified, added,
                   npolls, nadds>>
    /\ UNCHANGED <<lockVars, busVars, permVars>>

\* Pollee::reset_events().
reset_events(p) ==
    /\ alive[p]
    /\ events' = [events EXCEPT ![p] = fetch_and_not(@, IoEvents)]
    /\ addop' = ClearedDuringAdd(p, IoEvents)
    /\ UNCHANGED <<subject, alive, pollees, counter, pollop, wev, notified, added,
                   npolls, nadds>>
    /\ UNCHANGED <<lockVars, busVars, permVars>>

\* The last Pollee handle of a pollee is dropped (no call on it is in
\* progress): Weak::upgrade of its PolleeInner gives None from now on.
DropPollee(p) ==
    /\ alive[p]
    /\ \A h \in Handles : ~(pollop[h].st = "registered" /\ pollop[h].pollee = p)
    /\ ~(addop.st = "fetch_or" /\ addop.pollee = p)
    /\ ~(wev.pc \notin {"idle", "done"} /\ wev.pollee = p)
    /\ alive' = [alive EXCEPT ![p] = FALSE]
    /\ subject' = [subject EXCEPT ![p] = [h \in Handles |-> NoMask]]
    /\ events' = [events EXCEPT ![p] = {}]
    /\ UNCHANGED <<pollees, counter, pollop, addop, wev, notified, added, npolls, nadds>>
    /\ UNCHANGED <<lockVars, busVars, permVars>>

\* wait_events goes on at pcn.
WaitGoto(pcn, lg) ==
    /\ wev' = [wev EXCEPT !.pc = pcn, !.log = lg]
    /\ UNCHANGED subject

\* wait_events returns res; the Poller it made, if any, is dropped, and
\* Drop for PollHandle calls reset.
WaitReturn(res, lg) ==
    /\ wev' = [wev EXCEPT !.pc = "done", !.res = res, !.log = lg]
    /\ subject' = reset(WaitHandle)

\* The calls of try_op that wait_events has made.
Tries(lg) == {k \in 1 .. Len(lg) : lg[k].op = "try_op"}

\* A faulty variant of after_try_op: the zero timeout is not looked at
\* before the poller is made.
after_try_op_no_fast_path(r, first, timeout) ==
    IF r # "EAGAIN" THEN [ret |-> TRUE, to |-> r]
    ELSE IF ~first THEN [ret |-> FALSE, to |-> "wait"]
    ELSE [ret |-> FALSE, to |-> "poll"]

\* What wait_events does with the result r of try_op: the first call is the
\* fast path (a result is returned, EAGAIN with a zero timeout is ETIME,
\* otherwise the poller is made); a later call is the one of the loop.
after_try_op(r, first, timeout) ==
    IF r # "EAGAIN" THEN [ret |-> TRUE, to |-> r]
    ELSE IF ~first THEN [ret |-> FALSE, to |-> "wait"]
    ELSE IF timeout = "Zero" THEN [ret |-> TRUE, to |-> "ETIME"]
    ELSE [ret |-> FALSE, to |-> "poll"]

\* Pollable::wait_events(mask, timeout, try_op) is called on pollee p.
WaitEvents(p, m, timeout) ==
    /\ wev.pc = "idle"
    /\ alive[p]
    /\ wev' = [pc |-> "try_op", pollee |-> p, mask |-> m \cup ALWAYS_POLL,
               timeout |-> timeout, log |-> <<>>, res |-> "none"]
    /\ UNCHANGED <<events, subject, alive, pollees, counter, pollop, addop, notified,
                   added, npolls, nadds>>
    /\ UNCHANGED <<lockVars, busVars, permVars>>

\* wait_events: a call of try_op, which returns r, and the match on it.
TryOp(r) ==
    /\ wev.pc = "try_op"
    /\ Cardinality(Tries(wev.log)) < MaxTry
    /\ LET lg == Append(wev.log, [op |-> "try_op", res |-> r])
           nx == after_try_op(r, wev.log = <<>>, wev.timeout)
       IN  IF nx.ret THEN WaitReturn(nx.to, lg) ELSE WaitGoto(nx.to, lg)
    /\ UNCHANGED <<events, alive, pollees, counter, pollop, addop, notified, added,
                   npolls, nadds>>
    /\ UNCHANGED <<lockVars, busVars, permVars>>

\* wait_events: Poller::new() and self.poll(mask, Some(handle)) up to the
\* registration.
WaitPollRegister ==
    /\ wev.pc = "poll"
    /\ register_poller(WaitHandle, wev.pollee, wev.mask)
    /\ wev' = [wev EXCEPT !.pc = "poll_events"]
    /\ UNCHANGED <<events, alive, counter, pollop, addop, notified, added, npolls, nadds>>
    /\ UNCHANGED <<lockVars, busVars, permVars>>

\* wait_events: the events self.poll returns; the poller waits if there are
\* none.
WaitPollEvents ==
    /\ wev.pc = "poll_events"
    /\ LET ret == events[wev.pollee] \cap wev.mask
       IN  wev' = [wev EXCEPT !.pc = IF ret = {} THEN "wait" ELSE "try_op",
                              !.log = Append(@, [op |-> "poll",
                                                 res |-> IF ret = {} THEN "empty" ELSE "events"])]
    /\ UNCHANGED <<events, subject, alive, pollees, counter, pollop, addop, notified,
                   added, npolls, nadds>>
    /\ UNCHANGED <<lockVars, busVars, permVars>>

\* Poller::wait returns Ok: EventCounter::read found counter.swap(0) > 0.
WaitWake ==
    /\ wev.pc = "wait"
    /\ counter[WaitHandle] > 0
    /\ counter' = [counter EXCEPT ![WaitHandle] = 0]
    /\ wev' = [wev EXCEPT !.pc = "try_op",
                          !.log = Append(@, [op |-> "wait", res |-> "Ok"])]
    /\ UNCHANGED <<events, subject, alive, pollees, pollop, addop, notified, added,
                   npolls, nadds>>
    /\ UNCHANGED <<lockVars, busVars, permVars>>

\* Poller::wait fails (the timeout expired, or a signal interrupted the
\* wait) and the ? operator returns the error. pause_until_or_timeout
\* gives up only when cond, the swap of the counter, has found nothing.
WaitError(e) ==
    /\ wev.pc = "wait"
    /\ counter[WaitHandle] = 0
    /\ e = "ETIME" => wev.timeout = "Some"
    /\ WaitReturn(e, Append(wev.log, [op |-> "wait", res |-> e]))
    /\ UNCHANGED <<events, alive, pollees, counter, pollop, addop, notified, added,
                   npolls, nadds>>
    /\ UNCHANGED <<lockVars, busVars, permVars>>

\* The threads that poll with a handle of their own, and those that add
\* events.
PollNext ==
    \/ \E h \in Handles, p \in Pollees, m \in PollMasks : PollRegister(h, p, m)
    \/ \E h \in Handles : PollEvents(h)
    \/ \E h \in Handles : Reset(h)
    \/ \E p \in Pollees, ev \in AddEvents : AddFetchOr(p, ev)
    \/ AddNotify
    \/ \E p \in Pollees : DropPollee(p)

PollSpec == Init /\ [][PollNext]_vars

\* The same threads, and threads that remove events from the pollees.
EventsNext ==
    \/ \E h \in Handles, p \in Pollees, m \in PollMasks : PollRegister(h, p, m)
    \/ \E h \in Handles : PollEvents(h)
    \/ \E h \in Handles : Reset(h)
    \/ \E p \in Pollees, ev \in AddEvents : AddFetchOr(p, ev)
    \/ AddNotify
    \/ \E p \in Pollees : DropPollee(p)
    \/ \E p \in Pollees, ev \in DelEvents : del_events(p, ev)
    \/ \E p \in Pollees : reset_events(p)

EventsSpec == Init /\ [][EventsNext]_vars

\* A thread in wait_events, and the threads that add events.
WaitNext ==
    \/ \E p \in Pollees, ev \in AddEvents : AddFetchOr(p, ev)
    \/ AddNotify
    \/ \E p \in Pollees : DropPollee(p)
    \/ \E p \in Pollees, m \in PollMasks, timeout \in Timeouts : WaitEvents(p, m, timeout)
    \/ \E r \in TryResults : TryOp(r)
    \/ WaitPollRegister
    \/ WaitPollEvents
    \/ WaitWake
    \/ \E e \in {"ETIME", "EINTR"} : WaitError(e)

WaitSpec == Init /\ [][WaitNext]_vars

\* The thread in wait_events keeps running while it is not paused, the
\* wake-up of EventCounter::write makes a paused one run again, and a thread
\* inside add_events goes on to notify. A signal or a timeout is not owed.
FairWaitSpec ==
    /\ WaitSpec
    /\ WF_vars(\E r \in TryResults : TryOp(r))
    /\ WF_vars(WaitPollRegister)
    /\ WF_vars(WaitPollEvents)
    /\ WF_vars(WaitWake)
    /\ WF_vars(AddNotify)

\* ------------------------------------------------------------ bus.rs

\* A faulty variant of push_back: VecDeque::push_front.
push_front(q, x) == <<x>> \o q

\* VecDeque::push_back.
push_back(q, x) == Append(q, x)

\* One more probe call of driver drv with device dev.
Probe(pr, drv, dev) == [pr EXCEPT ![drv][dev] = @ + 1]

\* The loop of register_driver: n times, the front device is popped and
\* probed by the driver; f[dev] is the result of the probe. A claimed
\* device is pushed on devices, the others go to the back of the queue.
RECURSIVE register_driver_loop(_, _, _, _)
register_driver_loop(n, st, drv, f) ==
    IF n = 0 THEN st
    ELSE LET dev == Head(st.common_devices)
             popped == Tail(st.common_devices)
             pr == Probe(st.probed, drv, dev)
         IN  IF f[dev] = "Ok"
             THEN register_driver_loop(n - 1,
                      [common_devices |-> popped,
                       devices |-> Append(st.devices, dev),
                       probed |-> pr], drv, f)
             ELSE register_driver_loop(n - 1,
                      [common_devices |-> push_back(popped, dev),
                       devices |-> st.devices,
                       probed |-> pr], drv, f)

\* PciBus::register_driver(driver).
register_driver(drv, f) ==
    /\ Len(drivers) < MaxDrivers
    /\ drv = Len(drivers) + 1
    /\ LET st == register_driver_loop(Len(common_devices),
                      [common_devices |-> common_devices, devices |-> devices,
                       probed |-> probed], drv, f)
       IN  /\ common_devices' = st.common_devices
           /\ devices' = st.devices
           /\ probed' = st.probed
    /\ drivers' = Append(drivers, drv)
    /\ UNCHANGED ndevices
    /\ UNCHANGED <<lockVars, pollVars, permVars>>

\* The loop of register_common_device: the drivers probe the device in the
\* order of their registration, from the k-th on, until one claims it;
\* g[drv] is the result of the probe of drv.
RECURSIVE register_common_device_loop(_, _, _, _)
register_common_device_loop(k, pr, dev, g) ==
    IF k > Len(drivers) THEN [claimed |-> FALSE, probed |-> pr]
    ELSE IF g[drivers[k]] = "Ok"
         THEN [claimed |-> TRUE, probed |-> Probe(pr, drivers[k], dev)]
         ELSE register_common_device_loop(k + 1, Probe(pr, drivers[k], dev), dev, g)

\* PciBus::register_common_device(common_device).
register_common_device(dev, g) ==
    /\ ndevices < MaxDevices
    /\ dev = ndevices + 1
    /\ ndevices' = dev
    /\ LET r == register_common_device_loop(1, probed, dev, g)
       IN  /\ probed' = r.probed
           /\ IF r.claimed
              THEN devices' = Append(devices, dev) /\ UNCHANGED common_devices
              ELSE common_devices' = push_back(common_devices, dev) /\ UNCHANGED devices
    /\ UNCHANGED drivers
    /\ UNCHANGED <<lockVars, pollVars, permVars>>

BusNext ==
    \/ \E drv \in PciDrivers, f \in [PciDevices -> ProbeResults] : register_driver(drv, f)
    \/ \E dev \in PciDevices, g \in [PciDrivers -> ProbeResults] :
            register_common_device(dev, g)

BusSpec == Init /\ [][BusNext]_vars

\* ------------------------------------------------------------ posix_thread

\* A faulty variant of check_signal_perm: SIGCONT is checked like the other
\* signals.
check_signal_perm_no_sigcont(signum, sender, receiver) ==
    IF sender.euid = ROOT_UID THEN "Ok"
    ELSE IF \/ sender.ruid = receiver.ruid
            \/ sender.ruid = receiver.suid
            \/ sender.euid = receiver.ruid
            \/ sender.euid = receiver.suid
         THEN "Ok"
         ELSE "EPERM"

\* PosixThread::check_signal_perm(signum, sender) of a receiver thread.
check_signal_perm(signum, sender, receiver) ==
    IF sender.euid = ROOT_UID THEN "Ok"
    ELSE IF signum = "SIGCONT"
         THEN IF receiver.sid = sender.sid THEN "Ok" ELSE "EPERM"
         ELSE IF \/ sender.ruid = receiver.ruid
                 \/ sender.ruid = receiver.suid
                 \/ sender.euid = receiver.ruid
                 \/ sender.euid = receiver.suid
              THEN "Ok"
              ELSE "EPERM"

\* A signal, a sender and a receiver, before the call.
PermInit ==
    /\ LockInit
    /\ PollInit
    /\ BusInit
    /\ \E signum \in SigNums, sender \in SenderIds, receiver \in Receivers :
            perm = [signum |-> signum, sender |-> sender, receiver |-> receiver,
                    res |-> "none"]

\* The call of check_signal_perm.
CheckSignalPerm ==
    /\ perm.res = "none"
    /\ perm' = [perm EXCEPT !.res = check_signal_perm(perm.signum, perm.sender,
                                                      perm.receiver)]
    /\ UNCHANGED <<lockVars, pollVars, busVars>>

PermNext == CheckSignalPerm

PermSpec == PermInit /\ [][PermNext]_vars

\* ------------------------------------------------------------ properties

Overlap(r1, r2) == r1[1] < r2[2] /\ r2[1] < r1[2]

LockingPcs == {"traverse", "lock_parent", "drop_parent", "drop_parent_break",
               "lock_root", "dfs_acquire"}

\* The subtree root of a cursor and the nodes below it, through the child
\* node entries of the slots whose coverage intersects lo..hi.
RECURSIVE RangeNodes(_, _, _, _)
RangeNodes(n, node_va, lo, hi) ==
    IF level[n] <= 1 THEN {n}
    ELSE LET sz == page_size(level[n])
             hit == {i \in Slots : /\ entries[n][i].kind = "node"
                                   /\ node_va + i * sz < hi
                                   /\ lo < node_va + (i + 1) * sz}
         IN  {n} \cup UNION {RangeNodes(entries[n][i].pa, node_va + i * sz, lo, hi) :
                               i \in hit}

CursorNodes(t) ==
    RangeNodes(subtree_root[t],
               align_down(va[t][1], page_size(level[subtree_root[t]] + 1)),
               va[t][1], va[t][2])

\* C1 (coverage): when lock_range has returned, the locks taken for the
\* cursor are exactly the subtree root and the nodes below it that
\* intersect the range; each of them is locked, and no other node (no
\* ancestor of the subtree root, no node outside the range) is held.
C1_Coverage ==
    \A t \in Threads :
        pc[t] = "cursor" /\ cursor_use[t] # "unlinked" =>
            /\ Taken(t) = CursorNodes(t)
            /\ \A n \in CursorNodes(t) : lock[n]

\* A cursor on the root whose range leaves a linked node out and takes in
\* at least three nodes.
C1_Witness ==
    \E t \in Threads :
        /\ pc[t] = "cursor" /\ cursor_use[t] = "fresh"
        /\ subtree_root[t] = RootNode
        /\ Cardinality(CursorNodes(t)) >= 3
        /\ Subtree(RootNode) \ CursorNodes(t) # {}

\* C2 (symmetry): when unlock_range has returned, the thread holds what it
\* held before lock_range was called, and while dfs_release_lock runs every
\* guard it has re-made is for a lock that lock_range took and that is not
\* released yet (the cursor did not hand a subtree to
\* dfs_mark_stray_and_unlock in between).
C2_Symmetry ==
    \A t \in Threads :
        cursor_use[t] # "unlinked" =>
            /\ pc[t] = "idle" => held[t] = base[t] /\ took[t] \cap held[t] = {}
            /\ pc[t] = "dfs_release" =>
                  \A k \in 1 .. Len(stack[t]) : stack[t][k].node \in Taken(t)

\* unlock_range has returned for a cursor that held at least three locks,
\* while the other thread is inside lock_range or owns a cursor.
C2_Witness ==
    \E t \in Threads, u \in Threads :
        /\ t # u
        /\ pc[t] = "idle" /\ cursor_use[t] # "unlinked"
        /\ Cardinality(took[t]) >= 3
        /\ held[t] = {}
        /\ pc[u] \in LockingPcs \cup {"cursor"}

\* C3 (exclusion): a node's lock is held by at most one thread, a held
\* lock has its lock bit set, and every guard re-made by dfs_release_lock
\* is for a node whose lock the same thread holds.
C3_Exclusion ==
    /\ \A n \in NodeIds :
          /\ Cardinality({t \in Threads : n \in held[t]}) <= 1
          /\ (\E t \in Threads : n \in held[t]) => lock[n]
    /\ \A t \in Threads :
          pc[t] = "dfs_release" =>
              \A k \in 1 .. Len(stack[t]) : stack[t][k].node \in held[t]

\* Both threads hold locks, one of them inside dfs_release_lock with a
\* re-made guard after its cursor handed a subtree to
\* dfs_mark_stray_and_unlock.
C3_Witness ==
    \E t \in Threads, u \in Threads :
        /\ t # u
        /\ pc[t] = "dfs_release" /\ cursor_use[t] = "unlinked"
        /\ Cardinality(took[t]) >= 3
        /\ held[u] # {}

\* C4 (overlapping ranges): two cursors whose ranges share an address are
\* never live at the same time.
C4_OverlapExcluded ==
    \A t \in Threads, u \in Threads :
        t # u /\ pc[t] = "cursor" /\ pc[u] = "cursor" => ~Overlap(va[t], va[u])

\* A cursor is live and the other thread, asking for an overlapping range,
\* found the slot it needs empty and waits for the lock of the parent,
\* which the cursor holds.
C4_Witness ==
    \E t \in Threads, u \in Threads :
        /\ t # u
        /\ pc[t] = "cursor" /\ pc[u] = "lock_parent"
        /\ Overlap(va[t], va[u])
        /\ cur_pt_addr[u] \in held[t]

\* The node a thread waits for: the lock it spins on.
WaitsFor(t) ==
    IF pc[t] \in {"lock_parent", "lock_root"} /\ cur_node_guard[t] = NoNode
    THEN cur_pt_addr[t]
    ELSE IF pc[t] = "dfs_acquire"
    THEN entries[Top(stack[t]).node][Top(stack[t]).i].pa
    ELSE NoNode

Blocked(t, u) == WaitsFor(t) # NoNode /\ WaitsFor(t) \in held[u]

\* No set of threads in which every thread waits for a lock held by a
\* thread of the set.
NoWaitCycle ==
    \A S \in SUBSET Threads :
        S # {} => \E t \in S : \A u \in S : ~Blocked(t, u)

\* C5 (no deadlock): among threads that call lock_range and then
\* unlock_range, no cycle of threads waiting for each other's locks is ever
\* reached and, under fair scheduling, every lock_range call returns.
C5_NoDeadlock ==
    /\ []NoWaitCycle
    /\ \A t \in Threads : (pc[t] \in LockingPcs) ~> (pc[t] = "cursor")

\* A thread in the middle of dfs_acquire_lock holds the lock another thread
\* waits for.
C5_Witness ==
    \E t \in Threads, u \in Threads :
        t # u /\ Blocked(t, u) /\ pc[u] = "dfs_acquire"

\* C6 (stray marking): when dfs_mark_stray_and_unlock has returned, every
\* node of the subtree it was called on, the root and every descendant, is
\* marked stray and unlocked.
C6_StrayMarking ==
    [][\A t \in Threads : \A s \in CursorSlots(t) :
          CursorUnlink(t, s[1], s[2]) =>
              \A m \in Subtree(entries[s[1]][s[2]].pa) : stray'[m] /\ ~lock'[m]]_vars

\* The allocated nodes that are not part of the tree of the root any more.
UnlinkedNodes == {n \in NodeIds : level[n] > 0} \ Subtree(RootNode)

\* C7 (stale traversal): a lock_range that holds a pointer into an unlinked
\* branch eventually returns, with a cursor rooted in the tree of the root.
C7_StaleRetry ==
    \A t \in Threads :
        (pc[t] \in LockingPcs /\ cur_pt_addr[t] \in UnlinkedNodes)
            ~> (pc[t] = "cursor" /\ subtree_root[t] \in Subtree(RootNode))

\* C8 (no stray node under a cursor): from the return of
\* try_traverse_and_lock_subtree_root to the end of unlock_range, no lock
\* taken for the cursor is on a stray node.
C8_NoStrayHeld ==
    \A t \in Threads :
        pc[t] \in {"dfs_acquire", "cursor", "dfs_release"} =>
            \A n \in Taken(t) : ~stray[n]

\* The place of a node in the tree (its level and its index in the level).
PlaceOf(n) == (n - 1) % TreeSize(NR_LEVELS)

\* A fresh cursor is rooted at the node that took the place of a stray one.
C8_Witness ==
    \E t \in Threads :
        /\ pc[t] = "cursor" /\ cursor_use[t] = "fresh"
        /\ \E n \in NodeIds : stray[n] /\ PlaceOf(n) = PlaceOf(subtree_root[t])

\* The level of the narrowest node whose coverage contains lo..hi.
NarrowestLevel(lo, hi) ==
    CHOOSE l \in 1 .. NR_LEVELS :
        /\ lo \div page_size(l + 1) = (hi - 1) \div page_size(l + 1)
        /\ \A k \in 1 .. (l - 1) :
              lo \div page_size(k + 1) # (hi - 1) \div page_size(k + 1)

\* The node of level l on the root path of the address a.
RECURSIVE PathFrom(_, _, _)
PathFrom(n, l, a) ==
    IF level[n] = l THEN n
    ELSE LET e == entries[n][pte_index(a, level[n])]
         IN  IF e.kind = "node" THEN PathFrom(e.pa, l, a) ELSE NoNode

\* A leaf mapping sits on the root path of the address a above level l.
RECURSIVE LeafAbove(_, _, _)
LeafAbove(n, l, a) ==
    IF level[n] <= l THEN FALSE
    ELSE LET e == entries[n][pte_index(a, level[n])]
         IN  e.kind = "frame" \/ (e.kind = "node" /\ LeafAbove(e.pa, l, a))

IsNarrowestRoot(t) ==
    subtree_root[t] = PathFrom(RootNode, NarrowestLevel(va[t][1], va[t][2]), va[t][1])

\* C9 (narrowest subtree root): when lock_range has returned and its last
\* attempt met no
\* leaf mapping on the root path (neither by the lock-free load nor under
\* the lock), the subtree root is the narrowest node on the root path of
\* R.start that contains the range.
C9_Narrowest ==
    \A t \in Threads :
        pc[t] = "cursor" /\ cursor_use[t] = "fresh" /\ ~saw_leaf[t]
        => IsNarrowestRoot(t)

\* A cursor for a range inside one level-1 node holds that node alone,
\* and a cursor for a range that spans two root slots holds the root.
C9_Witness ==
    \E t \in Threads, u \in Threads :
        /\ t # u
        /\ pc[t] = "cursor" /\ cursor_use[t] = "fresh" /\ ~saw_leaf[t]
        /\ va[t] = <<7, 8>> /\ level[subtree_root[t]] = 1
        /\ Taken(t) = {subtree_root[t]}
        /\ pc[u] = "cursor" /\ cursor_use[u] = "fresh" /\ ~saw_leaf[u]
        /\ va[u] = <<0, 6>> /\ subtree_root[u] = RootNode

\* C10 (allocation under the lock): a step of lock_range changes a slot only
\* from empty to a newly allocated child node, in a node that is not stray
\* and whose lock the thread holds; every node allocated is linked in such
\* a slot in the same step, so a slot is given at most one child and a slot
\* that holds a child node or a leaf mapping is not overwritten.
C10_AllocUnderLock ==
    [][nreplace' = nreplace =>
          /\ \A n \in NodeIds, i \in Slots :
                entries'[n][i] # entries[n][i] =>
                    /\ entries[n][i].kind = "none"
                    /\ entries'[n][i].kind = "node"
                    /\ level[entries'[n][i].pa] = 0
                    /\ level'[entries'[n][i].pa] = level[n] - 1
                    /\ ~stray[n]
                    /\ \E t \in Threads :
                          /\ pc[t] = "lock_parent"
                          /\ n \in held'[t]
                          /\ entries'[n][i].pa \in held'[t]
          /\ \A m \in NodeIds :
                level'[m] # level[m] =>
                    \E n \in NodeIds, i \in Slots :
                        entries[n][i].kind = "none" /\ entries'[n][i] = NodeEntry(m)]_vars

\* Two threads found the same slot empty; one has allocated the child and
\* the other waits for the lock of the parent.
C10_Witness ==
    \E t \in Threads, u \in Threads :
        /\ t # u
        /\ pc[t] = "drop_parent" /\ cur_node_guard[t] # NoNode
        /\ pc[u] = "lock_parent" /\ cur_pt_addr[u] = pt_guard[t]
        /\ pte_index(va[u][1], cur_level[u]) = pte_index(va[t][1], cur_level[t])
        /\ entries[pt_guard[t]][pte_index(va[t][1], cur_level[t])] =
               NodeEntry(cur_node_guard[t])

\* The node of the highest level among the nodes of a non-empty set.
TopNode(S) == CHOOSE n \in S : \A m \in S : level[m] <= level[n]

\* C11 (idempotent re-lock): when one thread, with no other thread active,
\* locks a range, unlocks it and locks the same range again, the second
\* lock_range allocates no node and changes no entry, and the cursor it
\* returns has the subtree root (hence the guard level) and the set of
\* locked nodes of the first cursor.
C11_Relock ==
    [][ncalls = MaxLockCalls + 2 =>
          /\ level' = level /\ entries' = entries
          /\ pc[SoloThread] # "cursor" /\ pc'[SoloThread] = "cursor" =>
                /\ took[SoloThread] # {}
                /\ took'[SoloThread] = took[SoloThread]
                /\ subtree_root'[SoloThread] = TopNode(took[SoloThread])
                /\ \A n \in took[SoloThread] : lock'[n]]_vars

\* The second cursor is live and holds two nodes or more, in a page table
\* from which a subtree was unlinked before.
C11_Witness ==
    /\ ncalls = MaxLockCalls + 2
    /\ pc[SoloThread] = "cursor"
    /\ Cardinality(took[SoloThread]) >= 2
    /\ \E n \in NodeIds : stray[n]

\* C12 (allocation failure): when the allocation of a node has failed in a
\* lock_range call, the call has returned an allocation failure to its
\* caller (pc = "alloc_error") and none of the locks it took is held.
C12_AllocFailureReported ==
    \A t \in Threads :
        pc[t] \in {"panic_unwind", "panic_abort"} =>
            pc[t] = "alloc_error" /\ Taken(t) = {}

\* ------------------------------------------------------------ C13

\* C13: Pollee::poll registers the poller before it loads the events, so no
\* add_events is lost: when poll(mask, Some(poller)) has returned, every
\* event of the mask that a finished add_events added to the pollee is in
\* the returned events, or the poller was notified of it.
C13_PollAtomic ==
    \A h \in Handles :
        pollop[h].st = "done" =>
            (added[pollop[h].pollee] \cap pollop[h].mask)
                \subseteq (pollop[h].ret \cup notified[h][pollop[h].pollee])

\* A poll returned events that an add_events had added but not yet notified
\* of, and the poller was notified of other events of the same pollee.
C13_Witness ==
    \E h \in Handles :
        /\ pollop[h].st = "done"
        /\ addop.st = "idle"
        /\ added[pollop[h].pollee] \cap pollop[h].mask # {}
        /\ pollop[h].ret # {}
        /\ notified[h][pollop[h].pollee] # {}
        /\ ~(added[pollop[h].pollee] \cap pollop[h].mask \subseteq pollop[h].ret)
        /\ ~(added[pollop[h].pollee] \cap pollop[h].mask
                \subseteq notified[h][pollop[h].pollee])

\* ------------------------------------------------------------ C14

\* C14: Pollable::wait_events calls try_op before it waits and returns the
\* result of the first try_op call that is not EAGAIN; when the first try_op
\* gives EAGAIN and the timeout is zero it returns ETIME, with no poller
\* registered and no wait; when a wait fails with the timeout error, that
\* error is returned and try_op is not called again.
C14_WaitEvents ==
    LET lg == wev.log IN
    /\ wev.pc \in {"poll", "poll_events", "wait", "done"} =>
            lg # <<>> /\ lg[1].op = "try_op"
    /\ \A k \in Tries(lg) :
            lg[k].res # "EAGAIN" =>
                k = Len(lg) /\ wev.pc = "done" /\ wev.res = lg[k].res
    /\ wev.timeout = "Zero" /\ lg # <<>> /\ lg[1].res = "EAGAIN" =>
            /\ wev.pc = "done" /\ wev.res = "ETIME"
            /\ Len(lg) = 1
            /\ pollees[WaitHandle] = <<>>
            /\ \A p \in Pollees : subject[p][WaitHandle] = NoMask
    /\ \A k \in 1 .. Len(lg) :
            lg[k].op = "wait" /\ lg[k].res # "Ok" =>
                k = Len(lg) /\ wev.pc = "done" /\ wev.res = lg[k].res

\* wait_events returned the result of its second try_op, after a first
\* EAGAIN and a wait that an add_events ended.
C14_Witness ==
    /\ wev.pc = "done"
    /\ wev.res = "Ok"
    /\ Cardinality(Tries(wev.log)) = 2
    /\ \E k \in 1 .. Len(wev.log) : wev.log[k].op = "wait"

\* ------------------------------------------------------------ C16

\* C16: after PollHandle::reset the observer of the handle is registered
\* with none of the pollees that still exist, and an add_events that
\* notifies after the reset does not notify that observer.
C16_ResetUnregisters ==
    /\ [](\A h \in Handles :
            pollop[h].st = "idle" =>
                \A p \in Pollees : alive[p] => subject[p][h] = NoMask)
    /\ [][\A h \in Handles :
            pollop[h].st = "idle" /\ pollop'[h].st = "idle" =>
                counter'[h] = counter[h] /\ notified'[h] = notified[h]]_vars

\* A handle registered with two pollees was reset, both pollees still
\* exist, and an add_events of an ALWAYS_POLL event on one of them is about
\* to notify.
C16_Witness ==
    \E h \in Handles :
        /\ pollop[h].st = "idle"
        /\ ResetTargets(h) = Pollees
        /\ addop.st = "fetch_or"
        /\ addop.ev \cap ALWAYS_POLL # {}
        /\ notified[h][addop.pollee] # {}

\* ------------------------------------------------------------ C15

Range(q) == {q[k] : k \in 1 .. Len(q)}

\* The devices of q that are in S, in the order of q.
Restrict(q, S) == SelectSeq(q, LAMBDA x : x \in S)

\* C15: every device handed to the bus is in exactly one of common_devices
\* and devices, once; no call probes a device that was claimed before it;
\* register_driver probes each device that is unclaimed at the call exactly
\* once with the new driver and no other device; the devices that stay
\* unclaimed keep their relative order.
C15_BusDevices ==
    /\ [](/\ Range(common_devices) \cup Range(devices) = 1 .. ndevices
          /\ Len(common_devices) + Len(devices) = ndevices)
    /\ [][/\ \A dev \in Range(devices) : \A drv \in PciDrivers :
                 probed'[drv][dev] = probed[drv][dev]
          /\ drivers' # drivers =>
                 LET drv == drivers'[Len(drivers')] IN
                 /\ \A dev \in PciDevices :
                        probed'[drv][dev] = probed[drv][dev]
                            + (IF dev \in Range(common_devices) THEN 1 ELSE 0)
                 /\ \A other \in PciDrivers \ {drv} : probed'[other] = probed[other]
          /\ Restrict(common_devices', Range(common_devices))
                 = Restrict(common_devices, Range(common_devices'))]_vars

\* The driver registered last has probed three devices once each; it
\* claimed the second one, and the other two are unclaimed in their order.
C15_Witness ==
    /\ common_devices = <<1, 3>>
    /\ devices = <<2>>
    /\ drivers # <<>>
    /\ \A dev \in 1 .. 3 : probed[drivers[Len(drivers)]][dev] = 1

\* ------------------------------------------------------------ C17

\* C17: check_signal_perm returns Ok exactly when the sender is privileged
\* (its euid is root), or the signal is SIGCONT and sender and receiver are
\* in the same session, or the signal is not SIGCONT (or there is none) and
\* the ruid or the euid of the sender equals the ruid or the suid of the
\* receiver; otherwise it returns EPERM.
C17_SignalPerm ==
    perm.res # "none" =>
        LET s == perm.sender
            r == perm.receiver
            allowed ==
                \/ s.euid = ROOT_UID
                \/ perm.signum = "SIGCONT" /\ s.sid = r.sid
                \/ /\ perm.signum # "SIGCONT"
                   /\ {s.ruid, s.euid} \cap {r.ruid, r.suid} # {}
        IN  perm.res = (IF allowed THEN "Ok" ELSE "EPERM")

\* SIGCONT from an unprivileged sender of another session whose user ids
\* match those of the receiver was refused.
C17_Witness ==
    /\ perm.res = "EPERM"
    /\ perm.signum = "SIGCONT"
    /\ perm.sender.sid # perm.receiver.sid
    /\ perm.sender.ruid = perm.receiver.ruid

\* ------------------------------------------------------------ C18

\* The nodes below n in the tree with entries ent, each with the slots on
\* the way from n to it.
RECURSIVE TreePaths(_, _, _)
TreePaths(ent, n, path) ==
    {<<n, path>>} \cup
    UNION {TreePaths(ent, ent[n][i].pa, Append(path, i)) :
             i \in {j \in Slots : ent[n][j].kind = "node"}}

\* h comes before x in the depth-first pre-order of the tree of the root:
\* h is an ancestor of x, or h is in the subtree of a sibling of lower slot
\* index of x or of an ancestor of x.
PreOrderBefore(ent, h, x) ==
    LET paths == TreePaths(ent, RootNode, <<>>)
    IN  \E ph \in paths, px \in paths :
            /\ ph[1] = h /\ px[1] = x
            /\ \E k \in 0 .. Len(ph[2]) :
                   /\ k < Len(px[2])
                   /\ SubSeq(ph[2], 1, k) = SubSeq(px[2], 1, k)
                   /\ k = Len(ph[2]) \/ ph[2][k + 1] < px[2][k + 1]

\* C18: a thread takes the locks of a lock_range call in depth-first
\* pre-order: whenever it waits for the lock of a node, or acquires it,
\* every lock it has taken in the call and still holds is on a node that
\* comes before that node in the pre-order of the tree (an ancestor, or a
\* node in the subtree of a lower-index sibling of the node or of one of
\* its ancestors).
C18_PreOrder ==
    /\ [](\A t \in Threads :
            WaitsFor(t) # NoNode =>
                \A h \in Taken(t) : PreOrderBefore(entries, h, WaitsFor(t)))
    /\ [][\A t \in Threads : \A x \in held'[t] \ held[t] :
            \A h \in Taken(t) : PreOrderBefore(entries', h, x)]_vars

\* A thread in dfs_acquire_lock is at the lock of a child of the subtree
\* root while it holds the subtree root, a lower-index sibling of that
\* child, and a node below the sibling.
C18_Witness ==
    \E t \in Threads :
        /\ pc[t] = "dfs_acquire"
        /\ Cardinality(Taken(t)) >= 3
        /\ \E h \in Taken(t) : level[h] < level[WaitsFor(t)]

\* ------------------------------------------------------------ C19

\* C19: in unlock_range, when the lock of a node is released every lock of
\* the cursor still held on a node of the tree is on a node that comes
\* before it in the pre-order (so the children of a node are released from
\* the highest slot down), no descendant of the node is still held, and
\* the release of the subtree root is the last one.
C19_ReleaseOrder ==
    [][\A t \in Threads :
          pc[t] \in {"cursor", "dfs_release"} /\ pc'[t] \in {"dfs_release", "idle"} =>
              \A x \in held[t] \ held'[t] :
                  /\ \A h \in (Taken(t) \ {x}) \cap Subtree(RootNode) :
                        PreOrderBefore(entries, h, x)
                  /\ (Subtree(x) \ {x}) \cap held[t] = {}
                  /\ (x = subtree_root[t]) = (pc'[t] = "idle")]_vars

\* dfs_release_lock on the root has released the child in the higher slot
\* and the node below the child in the lower slot; the root and the child
\* in the lower slot are still held.
C19_Witness ==
    \E t \in Threads :
        /\ pc[t] = "dfs_release" /\ cursor_use[t] # "unlinked"
        /\ subtree_root[t] = RootNode
        /\ Cardinality(took[t]) >= 4
        /\ Cardinality(Taken(t)) = 2
        /\ \A n \in took[t] \ Taken(t) : ~lock[n]

\* ------------------------------------------------------------ C20

\* C20: dfs_mark_stray_and_unlock visits the node it is called on and every
\* node below it (it recurses into every slot that refers to a child node),
\* marks each stray and unlocks it; and no thread acquires the lock of a
\* node that is not in the tree of the root while its stray flag is unset.
C20_MarkAll ==
    /\ [][\A t \in Threads : \A s \in CursorSlots(t) :
            CursorUnlink(t, s[1], s[2]) =>
                LET sub_tree == entries[s[1]][s[2]].pa IN
                /\ dfs_mark_stray_and_unlock(sub_tree) = Subtree(sub_tree)
                /\ \A m \in Subtree(sub_tree) : stray'[m] /\ ~lock'[m]]_vars
    /\ [][\A t \in Threads : \A x \in held'[t] \ held[t] :
            x \notin Subtree(RootNode)' => stray'[x]]_vars

\* ------------------------------------------------------------ C21

\* C21: unlock_range releases only locks that its cursor holds: whenever
\* the lock bit of a node is cleared, the thread that clears it held the
\* lock, and if the step is one of unlock_range the lock is one that the
\* thread took in its lock_range call; when unlock_range returns none of
\* the locks of the cursor is held; and while a cursor is live no entry of
\* a node it holds is changed, except by the cursor itself in a slot of
\* its range, so that the walk of dfs_release_lock meets the nodes that
\* dfs_acquire_lock locked.
C21_ReleaseOwn ==
    [][/\ \A n \in NodeIds :
             (lock[n] /\ ~lock'[n]) =>
                 (\E t \in Threads :
                     /\ n \in held[t] \ held'[t]
                     /\ (pc[t] \in {"cursor", "dfs_release"}
                            /\ pc'[t] \in {"dfs_release", "idle"})
                            => n \in took[t] \ base[t])
          /\ \A t \in Threads :
                 (pc[t] \in {"cursor", "dfs_release"} /\ pc'[t] = "idle"
                     /\ cursor_use[t] # "unlinked") => took[t] \cap held'[t] = {}
          /\ \A u \in Threads : \A m \in Taken(u) : \A i \in Slots :
                 (pc[u] = "cursor" /\ entries'[m][i] # entries[m][i]) =>
                     /\ <<m, i>> \in CursorSlots(u)
                     /\ pc'[u] = "cursor"
                     /\ nreplace' # nreplace]_vars

\* dfs_release_lock of a cursor that holds the parent of another cursor's
\* subtree root (a child outside its range) has released a lock, and the
\* other cursor is live.
C21_Witness ==
    \E t \in Threads, u \in Threads :
        /\ t # u
        /\ pc[t] = "dfs_release" /\ pc[u] = "cursor"
        /\ took[t] \ held[t] # {}
        /\ subtree_root[u] \notin took[t]
        /\ \E n \in took[t], i \in Slots : entries[n][i] = NodeEntry(subtree_root[u])

\* ------------------------------------------------------------ C22

\* The node try_traverse_and_lock_subtree_root locks next.
NodeToLock(t) ==
    IF cur_node_guard[t] # NoNode THEN cur_node_guard[t] ELSE cur_pt_addr[t]

\* C22: when try_traverse_and_lock_subtree_root has locked a node (the
\* parent it locks to allocate a child, or the subtree root) and finds it
\* stray, the attempt ends with every lock it took released and no entry,
\* level or stray flag changed, and lock_range starts the next attempt at
\* the page-table root; a node that is not stray never makes it retry.
C22_StrayRetry ==
    [][\A t \in Threads :
          (pc[t] \in {"lock_parent", "lock_root"} /\ pc'[t] # pc[t]) =>
              /\ stray[NodeToLock(t)] = (pc'[t] = "traverse")
              /\ pc'[t] = "traverse" =>
                    /\ held'[t] = base[t]
                    /\ ~lock'[NodeToLock(t)]
                    /\ entries' = entries /\ level' = level /\ stray' = stray
                    /\ cur_pt_addr'[t] = RootNode
                    /\ cur_level'[t] = NR_LEVELS
                    /\ cur_node_guard'[t] = NoNode]_vars

\* A thread in lock_range is at the lock of a node that another thread's
\* cursor has unlinked, marked stray and unlocked.
C22_Witness ==
    \E t \in Threads :
        /\ pc[t] \in {"lock_parent", "lock_root"}
        /\ cur_node_guard[t] = NoNode
        /\ stray[cur_pt_addr[t]]
        /\ ~lock[cur_pt_addr[t]]

\* ------------------------------------------------------------ C23

\* The slot of R.start in the node the locator is at holds a leaf mapping,
\* at a level where the range fits in one slot.
AtLeaf(t) ==
    LET start_idx == pte_index(va[t][1], cur_level[t])
        end_idx == pte_index(va[t][2] - 1, cur_level[t])
    IN  /\ level_too_high(cur_level[t], start_idx, end_idx)
        /\ entries[NodeToLock(t)][start_idx].kind = "frame"

\* C23: when the locator meets a leaf mapping in the slot of R.start, by
\* the lock-free load or under the lock of the node, at a level where the
\* range fits in one slot, it stops the descent at that node without
\* allocating a node and without changing the entry; and after a descent
\* that stopped at a leaf the node locked as the subtree root is that node.
C23_LeafStops ==
    [][\A t \in Threads :
          /\ (pc[t] = "traverse" /\ pc'[t] # pc[t] /\ AtLeaf(t)) =>
                /\ pc'[t] = "lock_root"
                /\ cur_pt_addr'[t] = cur_pt_addr[t]
                /\ entries' = entries /\ level' = level
          /\ (pc[t] = "lock_parent" /\ pc'[t] # pc[t] /\ AtLeaf(t)
                 /\ ~stray[NodeToLock(t)]) =>
                /\ pc'[t] = "drop_parent_break"
                /\ cur_pt_addr'[t] = cur_pt_addr[t]
                /\ entries' = entries /\ level' = level
          /\ (pc[t] = "drop_parent_break" /\ pc'[t] # pc[t]) =>
                /\ pc'[t] = "lock_root"
                /\ cur_pt_addr'[t] = cur_pt_addr[t]
                /\ entries' = entries /\ level' = level
          /\ (pc[t] = "lock_root" /\ saw_leaf[t]
                 /\ pc'[t] \in {"dfs_acquire", "cursor"}) =>
                /\ subtree_root'[t] = cur_pt_addr[t]
                /\ entries' = entries /\ level' = level]_vars

\* A cursor is rooted above the narrowest node of its range, at a node
\* whose slot of R.start holds a leaf mapping.
C23_Witness ==
    \E t \in Threads :
        /\ pc[t] = "cursor" /\ cursor_use[t] = "fresh" /\ saw_leaf[t]
        /\ level[subtree_root[t]] > NarrowestLevel(va[t][1], va[t][2])
        /\ entries[subtree_root[t]][pte_index(va[t][1], level[subtree_root[t]])].kind
               = "frame"

\* ------------------------------------------------------------ C24

\* C24: an entry of a node and the stray flag of a node are written only
\* by a thread that holds the lock of the node; a stray flag that is set
\* stays set; and no child node is linked into a node whose stray flag is
\* set.
C24_WriteUnderLock ==
    [][\A n \in NodeIds :
          /\ \A i \in Slots :
                entries'[n][i] # entries[n][i] =>
                    /\ \E t \in Threads : n \in held'[t] /\ lock'[n]
                    /\ \A u \in Threads : n \in held[u] => n \in held'[u]
                    /\ entries'[n][i].kind = "node" => ~stray[n] /\ ~stray'[n]
          /\ stray'[n] # stray[n] =>
                \E t \in Threads : n \in held[t] /\ lock[n]
          /\ stray[n] => stray'[n]]_vars

\* A thread has allocated a child under the lock of its parent in a page
\* table from which a subtree was unlinked and marked stray.
C24_Witness ==
    \E t \in Threads :
        /\ pc[t] = "drop_parent"
        /\ cur_node_guard[t] # NoNode
        /\ pt_guard[t] \in held[t]
        /\ \E n \in NodeIds : stray[n] /\ PlaceOf(n) = PlaceOf(cur_node_guard[t])

\* ------------------------------------------------------------ C25

\* The slot of the page-table root that the range r lies under, when it
\* lies within one.
RootSlot(r) == r[1] \div page_size(NR_LEVELS)
SingleRootSlot(r) == RootSlot(r) = (r[2] - 1) \div page_size(NR_LEVELS)

\* Thread t is inside lock_range and thread u owns a live cursor, for
\* ranges that lie under different slots of the page-table root.
DisjointPair(t, u) ==
    /\ t # u
    /\ pc[t] \in LockingPcs /\ pc[u] = "cursor"
    /\ SingleRootSlot(va[t]) /\ SingleRootSlot(va[u])
    /\ RootSlot(va[t]) # RootSlot(va[u])

\* C25 as stated: a lock_range for a range under one root slot never waits
\* for a lock held by a live cursor for a range under another root slot.
C25_DisjointStated ==
    \A t \in Threads, u \in Threads :
        DisjointPair(t, u) => WaitsFor(t) \notin Taken(u)

\* C25: a lock_range for a range under one root slot never waits for a
\* lock held by a live cursor for a range under another root slot, when
\* that cursor is rooted below the page-table root (no leaf mapping in the
\* root slot of its range stopped its descent at the root).
C25_Disjoint ==
    \A t \in Threads, u \in Threads :
        DisjointPair(t, u) /\ subtree_root[u] # RootNode =>
            WaitsFor(t) \notin Taken(u)

\* A cursor is live under one root slot while a lock_range under the other
\* root slot is at the lock of the page-table root, to allocate the child
\* of its slot.
C25_Witness ==
    \E t \in Threads, u \in Threads :
        /\ DisjointPair(t, u) /\ subtree_root[u] # RootNode
        /\ pc[t] = "lock_parent" /\ WaitsFor(t) = RootNode

\* ------------------------------------------------------------ C26

\* The positions of a thread inside try_traverse_and_lock_subtree_root.
SearchPcs == {"traverse", "lock_parent", "drop_parent", "drop_parent_break", "lock_root"}

\* The slots whose entry a step changes.
ChangedSlots == {s \in NodeIds \X Slots : entries'[s[1]][s[2]] # entries[s[1]][s[2]]}

\* C26 (what the locking functions write): a step of lock_range changes at
\* most one entry: the empty slot of R.start in the node of the current
\* level on the root path of R.start, above the narrowest level of the
\* range, becomes a newly allocated child node, and the descent goes on at
\* that child, so that the subtree root returned is the child or below it
\* and a call allocates at most once per level; no step of lock_range,
\* dfs_acquire_lock, unlock_range or dfs_release_lock changes another
\* entry or a stray flag, and the step in which dfs_mark_stray_and_unlock
\* runs changes no entry of a node it marks or unlocks.
C26_Frame ==
    [][/\ nreplace' = nreplace =>
              /\ stray' = stray
              /\ Cardinality(ChangedSlots) <= 1
              /\ \A s \in ChangedSlots :
                    \E t \in Threads :
                        /\ pc[t] = "lock_parent" /\ pc'[t] = "drop_parent"
                        /\ s[1] = PathFrom(RootNode, cur_level[t], va[t][1])
                        /\ s[2] = pte_index(va[t][1], cur_level[t])
                        /\ cur_level[t] > NarrowestLevel(va[t][1], va[t][2])
                        /\ entries[s[1]][s[2]] = NoneEntry
                        /\ entries'[s[1]][s[2]].kind = "node"
                        /\ level[entries'[s[1]][s[2]].pa] = 0
                        /\ cur_node_guard'[t] = entries'[s[1]][s[2]].pa
                        /\ cur_pt_addr'[t] = cur_node_guard'[t]
                        /\ cur_level'[t] = cur_level[t]
       /\ \A t \in Threads :
              /\ (pc[t] \in SearchPcs /\ cur_node_guard[t] # NoNode
                      /\ <<pc[t], cur_level[t], cur_node_guard[t]>>
                             # <<pc'[t], cur_level'[t], cur_node_guard'[t]>>) =>
                     /\ pc'[t] \in SearchPcs =>
                            /\ cur_node_guard'[t] # NoNode
                            /\ cur_level'[t] =
                                   IF pc[t] = "drop_parent"
                                   THEN cur_level[t] - 1 ELSE cur_level[t]
                     /\ pc'[t] \notin SearchPcs =>
                            /\ pc'[t] \in {"dfs_acquire", "cursor"}
                            /\ subtree_root'[t] = cur_node_guard[t]
              /\ (\/ pc[t] \in {"dfs_acquire", "dfs_release"}
                         /\ <<pc[t], held[t], stack[t]>> # <<pc'[t], held'[t], stack'[t]>>
                  \/ pc[t] = "cursor" /\ pc'[t] \in {"dfs_release", "idle"}) =>
                     entries' = entries /\ stray' = stray
       /\ nreplace' # nreplace =>
              \A m \in NodeIds :
                  (stray'[m] # stray[m] \/ lock'[m] # lock[m]) =>
                      entries'[m] = entries[m]]_vars

\* One lock_range call has allocated the level-2 child of a root slot and,
\* in it, a level-1 child, while a cursor that unlinked a child page table
\* is live.
C26_Witness ==
    \E t \in Threads, u \in Threads :
        /\ t # u
        /\ pc[t] = "drop_parent" /\ cur_node_guard[t] # NoNode
        /\ level[cur_node_guard[t]] = 1
        /\ Cardinality({i \in Slots : entries[pt_guard[t]][i].kind # "none"}) = 1
        /\ pc[u] = "cursor" /\ cursor_use[u] = "unlinked"

\* ------------------------------------------------------------ C27

\* The guard the thread carries from one level of the descent to the next.
CarriedGuard(t) == IF cur_node_guard[t] = NoNode THEN {} ELSE {cur_node_guard[t]}

\* C27 (locks held during the search): a thread inside
\* try_traverse_and_lock_subtree_root holds at most two locks of its call;
\* between two levels of the descent it holds at most the guard it carries;
\* under the parent's lock it holds the parent and, if it allocated, the
\* child it has just linked in the parent's slot of R.start. The parent's
\* lock is released at the end of the loop body, and the carried guard is
\* dropped when the descent goes on through an entry that is present.
C27_SearchLocks ==
    /\ [](\A t \in Threads :
             pc[t] \in SearchPcs =>
                 /\ Cardinality(Taken(t)) <= 2
                 /\ pc[t] \in {"traverse", "lock_parent", "lock_root"} =>
                        Taken(t) = CarriedGuard(t)
                 /\ pc[t] \in {"drop_parent", "drop_parent_break"} =>
                        /\ Taken(t) = {pt_guard[t]} \cup CarriedGuard(t)
                        /\ pt_guard[t] # NoNode
                        /\ cur_node_guard[t] # NoNode =>
                               /\ cur_node_guard[t] # pt_guard[t]
                               /\ entries[pt_guard[t]][pte_index(va[t][1], cur_level[t])]
                                      = NodeEntry(cur_node_guard[t]))
    /\ [][\A t \in Threads :
             /\ (pc[t] \in {"drop_parent", "drop_parent_break"} /\ pc'[t] # pc[t]) =>
                    /\ pt_guard[t] \notin held'[t]
                    /\ ~lock'[pt_guard[t]]
                    /\ Taken(t) \ {pt_guard[t]} = held'[t] \ base'[t]
             /\ (pc[t] = "traverse" /\ cur_level'[t] < cur_level[t]) =>
                    /\ entries[cur_pt_addr[t]][pte_index(va[t][1], cur_level[t])]
                           = NodeEntry(cur_pt_addr'[t])
                    /\ held'[t] = base'[t]
                    /\ cur_node_guard[t] # NoNode => ~lock'[cur_node_guard[t]]]_vars

\* A thread holds a level-2 node it allocated and the level-1 child it has
\* just allocated in it; the lock of the root, under which the level-2 node
\* was allocated, is free again.
C27_Witness ==
    \E t \in Threads :
        /\ pc[t] = "drop_parent" /\ cur_node_guard[t] # NoNode
        /\ level[pt_guard[t]] = 2 /\ level[cur_node_guard[t]] = 1
        /\ Taken(t) = {pt_guard[t], cur_node_guard[t]}
        /\ ~lock[RootNode]

\* ------------------------------------------------------------ C28

\* The number of try_op calls wait_events has made.
WaitTries == Cardinality(Tries(wev.log))

\* wait_events, called with no timeout, is past a try_op that returned
\* EAGAIN, and an event of its mask that add_events added is there for it:
\* in the pollee's state before the poll has read it, or as a notification
\* counted by the EventCounter of its poller.
WakeupPending ==
    /\ wev.timeout = "None"
    /\ \/ wev.pc \in {"poll", "poll_events"} /\ events[wev.pollee] \cap wev.mask # {}
       \/ wev.pc = "wait" /\ counter[WaitHandle] > 0

\* C28 (no lost wakeup): when an add_events call with an event of the mask
\* (ALWAYS_POLL included) completes while wait_events is between a try_op
\* that returned EAGAIN and the next one, the event is in the pollee's state
\* if the poll has not read it yet, and the poller's counter is positive if
\* the thread is at Poller::wait; a Poller::wait that finds the counter
\* positive returns Ok at once and resets it; and with no timeout, from
\* every such state try_op is called again.
C28_NoLostWakeup ==
    /\ [][(addop.st = "fetch_or" /\ addop' = NoAdd /\ addop.pollee = wev.pollee
              /\ addop.ev \cap wev.mask # {}) =>
             /\ wev.pc \in {"poll", "poll_events"} =>
                    addop.ev \cap wev.mask \subseteq events'[wev.pollee]
             /\ wev.pc = "wait" => counter'[WaitHandle] > 0]_vars
    /\ [][(wev.pc = "wait" /\ counter[WaitHandle] > 0 /\ wev' # wev) =>
             /\ wev'.pc = "try_op"
             /\ wev'.log = Append(wev.log, [op |-> "wait", res |-> "Ok"])
             /\ counter'[WaitHandle] = 0]_vars
    /\ \A k \in 1 .. (MaxTry - 1) :
           (WakeupPending /\ WaitTries = k) ~> (WaitTries > k)

\* The second try_op returned EAGAIN and the thread is at Poller::wait for
\* the second time; add_events has notified its poller since the first
\* wait returned.
C28_Witness ==
    /\ WakeupPending /\ wev.pc = "wait"
    /\ WaitTries = 2
    /\ \E k \in 1 .. Len(wev.log) : wev.log[k] = [op |-> "wait", res |-> "Ok"]

\* ------------------------------------------------------------ C29

\* C29 (event state and notification): add_events(E) sets the bits of E,
\* and nothing else, before it notifies: its first step changes no counter,
\* and when it notifies, exactly the observers whose mask meets E, every bit
\* of E that no del_events or reset_events has cleared since is in the
\* pollee's state, where a poll of the notified observer finds it;
\* fetch_and with the complement of E leaves the state without the bits of
\* E and with all its other bits, and with the complement of all bits it
\* leaves none; a step that removes bits from a pollee removes those of
\* one del_events or reset_events call and notifies no observer; an
\* observer is notified only by the second step of add_events; a registered
\* mask includes ALWAYS_POLL, and a poll returns the ALWAYS_POLL events of
\* the pollee whatever mask was passed.
C29_EventState ==
    /\ [](\A p \in Pollees :
             /\ \A ev \in SUBSET IoEvents :
                    fetch_and_not(events[p], ev) = events[p] \ ev
             /\ fetch_and_not(events[p], IoEvents) = {}
             /\ \A h \in Handles :
                    subject[p][h] # NoMask => ALWAYS_POLL \subseteq subject[p][h])
    /\ [][/\ (addop.st = "idle" /\ addop'.st = "fetch_or") =>
                /\ events' = [events EXCEPT ![addop'.pollee] = @ \cup addop'.ev]
                /\ counter' = counter /\ notified' = notified
          /\ (addop.st = "fetch_or" /\ addop'.st = "idle") =>
                /\ addop.ev \ addop.cleared \subseteq events[addop.pollee]
                /\ events' = events
                /\ \A h \in Handles :
                      counter'[h] = counter[h] +
                          (IF subject[addop.pollee][h] \cap addop.ev # {} THEN 1 ELSE 0)
          /\ (\E h \in Handles : counter'[h] # counter[h] \/ notified'[h] # notified[h]) =>
                addop.st = "fetch_or" /\ addop'.st = "idle"
          /\ \A p \in Pollees :
                (alive'[p] /\ ~(events[p] \subseteq events'[p])) =>
                    /\ \E ev \in DelEvents \cup {IoEvents} : events'[p] = events[p] \ ev
                    /\ counter' = counter /\ notified' = notified /\ subject' = subject
          /\ \A h \in Handles :
                (pollop[h].st = "registered" /\ pollop'[h].st = "done") =>
                    /\ events[pollop[h].pollee] \cap ALWAYS_POLL \subseteq pollop'[h].ret
                    /\ pollop'[h].ret =
                           events[pollop[h].pollee] \cap subject[pollop[h].pollee][h]]_vars

\* An observer registered with the mask IN was notified of HUP, and polled
\* again, after del_events had cleared OUT from what add_events added: the
\* poll returned HUP.
C29_Witness ==
    \E h \in Handles :
        /\ pollop[h].st = "done" /\ pollop[h].ret = {"HUP"}
        /\ notified[h][pollop[h].pollee] = {"OUT", "HUP"}
        /\ counter[h] > 0
        /\ events[pollop[h].pollee] = {"HUP"}

====
